---- MODULE Spec2Model ----
(***************************************************************************)
(* A model of the DMG-01 emulator core of ablakey/gameboy: the interrupt   *)
(* controller (guest/mmu/interrupts.rs), the MMU's stack and interrupt     *)
(* dispatch (guest/mmu/mod.rs), the CPU step (guest/cpu.rs), the timer     *)
(* (guest/systems/timer.rs, guest/mmu/timer.rs), the display controller   *)
(* (guest/systems/ppu.rs, guest/mmu/ppu.rs), the cartridge controllers     *)
(* (guest/cartridge), the ALU (guest/systems/alu.rs), the APU              *)
(* (guest/systems/apu.rs), the host's audio queue (host/audio.rs) and the  *)
(* frame loop that steps them (emulator.rs).                               *)
(*                                                                         *)
(* Every method of the source is an operator from the state it borrows to  *)
(* the state it leaves (and its return value); the actions of the          *)
(* specifications below apply these operators to the variables.            *)
(***************************************************************************)
EXTENDS Integers, Sequences, FiniteSets, TLC

VARIABLES
    mmu,                \* the MMU aggregate: registers, interrupts, timer and ppu register blocks, high RAM
    timer,              \* systems::Timer: divider_lapsed, counter_lapsed, and the position inside Timer::step
    ppu,                \* systems::PPU: modeclock and the image buffer
    fatal,              \* "" while the program runs, else the panic that ended it
    last,               \* observer: the operation that ran last and what it returned
    ticksSinceDisable,  \* observer: ticks since the last clean disable_ime call, -1 if none
    cpuSteps,           \* observer: CPU steps taken so far
    ppuElapsed,         \* observer: cycles fed to PPU::step since the display (re)started, modulo one frame
    ppuPowerOff,        \* observer: "written" from a write that turns the display off to the next
                        \* PPU::step, "stepped" from that step to the one after it, else "no"
    timerObs,           \* observer: cycles fed to Timer::step, and the counter they started from
    apu,                \* systems::APU: clock, counter and the length of output_buffer
    audio,              \* host::Audio: the samples in the playback queue of the device
    frame               \* Emulator::emulate_frame: its position, cycle_count and the cycles of the iteration

vars == <<mmu, timer, ppu, fatal, last, ticksSinceDisable, cpuSteps, ppuElapsed, ppuPowerOff, timerObs,
          apu, audio, frame>>

\* The emulator's fields outside the MMU, the timer and the display controller.
Host == <<apu, audio, frame>>

(***************************************************************************)
(* Machine arithmetic.                                                     *)
(***************************************************************************)

\* Option::None of an Option<u8> return value.
None == -1

Pow2(n) == 2 ^ n

\* u8 and u16 wrap-around (wrapping_add, `as u8`, `as u16`).
U8(x) == x % 256

\* A byte as a two's complement signed number (`as i8`).
Signed8(byte) == IF byte >= 128 THEN byte - 256 ELSE byte
U16(x) == x % 65536

\* is_bit_set(value, position)
is_bit_set(value, position) == (value \div Pow2(position)) % 2 = 1

\* a & b on bytes.
RECURSIVE AndBits(_, _, _)
AndBits(a, b, n) ==
    IF n = 0 THEN 0
    ELSE (IF (a % 2 = 1) /\ (b % 2 = 1) THEN 1 ELSE 0)
         + 2 * AndBits(a \div 2, b \div 2, n - 1)

BitAnd(a, b) == AndBits(a, b, 8)

\* a | b on bytes.
BitOr(a, b) == a + b - BitAnd(a, b)

\* a & !(1 << i) on bytes.
ClearBit(a, i) == IF is_bit_set(a, i) THEN a - Pow2(i) ELSE a

\* u8::trailing_zeros for a non-zero byte.
RECURSIVE trailing_zeros(_)
trailing_zeros(a) == IF a % 2 = 1 THEN 0 ELSE 1 + trailing_zeros(a \div 2)

(***************************************************************************)
(* guest/mmu/interrupts.rs: the interrupt controller.                      *)
(***************************************************************************)

\* Interrupts::new
InterruptsNew ==
    [is_halted |-> FALSE, inte |-> 0, intf |-> 0, ime |-> TRUE,
     disable_ime_counter |-> 0, enable_ime_counter |-> 0]

\* disable_ime leaving a running counter as it is.
disable_ime_no_restart(i) ==
    IF i.disable_ime_counter # 0 THEN i ELSE [i EXCEPT !.disable_ime_counter = 2]

\* Interrupts::disable_ime
disable_ime(i) == [i EXCEPT !.disable_ime_counter = 2]

\* Interrupts::enable_ime
enable_ime(i, delay) == [i EXCEPT !.enable_ime_counter = delay]

\* TickDisable with the flag cleared one tick early.
TickDisableEarly(i) ==
    CASE i.disable_ime_counter = 2 -> [i EXCEPT !.ime = FALSE, !.disable_ime_counter = 1]
      [] i.disable_ime_counter = 1 -> [i EXCEPT !.ime = FALSE, !.disable_ime_counter = 0]
      [] OTHER -> [i EXCEPT !.disable_ime_counter = 0]

\* The first match of tick_ime_timer: the disable counter.
TickDisable(i) ==
    CASE i.disable_ime_counter = 2 -> [i EXCEPT !.disable_ime_counter = 1]
      [] i.disable_ime_counter = 1 -> [i EXCEPT !.ime = FALSE, !.disable_ime_counter = 0]
      [] OTHER -> [i EXCEPT !.disable_ime_counter = 0]

\* The second match of tick_ime_timer: the enable counter.
TickEnable(i) ==
    CASE i.enable_ime_counter = 2 -> [i EXCEPT !.enable_ime_counter = 1]
      [] i.enable_ime_counter = 1 -> [i EXCEPT !.ime = TRUE, !.enable_ime_counter = 0]
      [] OTHER -> [i EXCEPT !.enable_ime_counter = 0]

\* tick_ime_timer with the enable counter first, then the disable counter.
tick_ime_timer_enable_first(i) == TickDisable(TickEnable(i))

\* Interrupts::tick_ime_timer: the disable counter first, then the enable counter.
tick_ime_timer(i) == TickEnable(TickDisable(i))

\* FlagIndex taking the highest set bit (leading instead of trailing zeros).
RECURSIVE FlagIndexHighest(_)
FlagIndexHighest(active_interrupts) ==
    IF active_interrupts \div 2 = 0 THEN 0
    ELSE 1 + FlagIndexHighest(active_interrupts \div 2)

\* The flag index try_interrupt isolates: the lowest set bit of the active mask.
FlagIndex(active_interrupts) == trailing_zeros(active_interrupts)

\* A try_interrupt without the early return on master-enable false.
try_interrupt_ignores_ime(i) ==
    LET active_interrupts == BitAnd(i.inte, i.intf)
        flag_index == FlagIndex(active_interrupts)
    IN  IF active_interrupts = 0
        THEN [st |-> i, ret |-> None, panic |-> ""]
        ELSE IF i.intf > 31
        THEN [st |-> [i EXCEPT !.is_halted = FALSE], ret |-> None,
              panic |-> "INTF is set to an invalid value"]
        ELSE [st |-> [i EXCEPT !.is_halted = FALSE,
                               !.intf = ClearBit(i.intf, flag_index)],
              ret |-> flag_index, panic |-> ""]

\* A try_interrupt that clears the master enable when it services.
try_interrupt_clears_ime(i) ==
    LET active_interrupts == BitAnd(i.inte, i.intf)
        flag_index == FlagIndex(active_interrupts)
    IN  IF ~i.ime /\ ~i.is_halted
        THEN [st |-> i, ret |-> None, panic |-> ""]
        ELSE IF active_interrupts = 0
        THEN [st |-> i, ret |-> None, panic |-> ""]
        ELSE IF i.intf > 31
        THEN [st |-> [i EXCEPT !.is_halted = FALSE], ret |-> None,
              panic |-> "INTF is set to an invalid value"]
        ELSE [st |-> [i EXCEPT !.is_halted = FALSE, !.ime = FALSE,
                               !.intf = ClearBit(i.intf, flag_index)],
              ret |-> flag_index, panic |-> ""]

\* Interrupts::try_interrupt: the controller it leaves, its return value, and
\* the panic it ends in (if any).
try_interrupt(i) ==
    LET active_interrupts == BitAnd(i.inte, i.intf)
        flag_index == FlagIndex(active_interrupts)
    IN  IF ~i.ime /\ ~i.is_halted
        THEN [st |-> i, ret |-> None, panic |-> ""]
        ELSE IF active_interrupts = 0
        THEN [st |-> i, ret |-> None, panic |-> ""]
        ELSE IF i.intf > 31
        THEN [st |-> [i EXCEPT !.is_halted = FALSE], ret |-> None,
              panic |-> "INTF is set to an invalid value"]
        ELSE [st |-> [i EXCEPT !.is_halted = FALSE,
                               !.intf = ClearBit(i.intf, flag_index)],
              ret |-> flag_index, panic |-> ""]

(***************************************************************************)
(* guest/mmu/timer.rs and guest/mmu/ppu.rs: the register blocks.           *)
(***************************************************************************)

\* TimerRegisters::new
TimerRegistersNew ==
    [divider |-> 0, counter |-> 0, modulo |-> 0, started |-> FALSE, clock |-> 0]

\* A write that stores the byte in the divider like in the other registers.
TimerRegistersWbStores(t, address, value) ==
    CASE address = 65284 -> [t EXCEPT !.divider = value]
      [] address = 65285 -> [t EXCEPT !.counter = value]
      [] address = 65286 -> [t EXCEPT !.modulo = value]
      [] address = 65287 -> [t EXCEPT !.started = is_bit_set(value, 2),
                                      !.clock = value % 4]

\* TimerRegisters::wb for 0xFF04 (65284) .. 0xFF07 (65287).
TimerRegistersWb(t, address, value) ==
    CASE address = 65284 -> [t EXCEPT !.divider = 0]
      [] address = 65285 -> [t EXCEPT !.counter = value]
      [] address = 65286 -> [t EXCEPT !.modulo = value]
      [] address = 65287 -> [t EXCEPT !.started = is_bit_set(value, 2),
                                      !.clock = value % 4]

\* PpuRegisters::new
PpuRegistersNew ==
    [lyc_int_enable |-> FALSE, mode2_int_enable |-> FALSE,
     mode1_int_enable |-> FALSE, mode0_int_enable |-> FALSE,
     scy |-> 0, scx |-> 0, line |-> 0, background_palette |-> 0,
     obj_palette_0 |-> 0, obj_palette_1 |-> 0, win_x |-> 0, win_y |-> 0,
     lyc |-> 0, mode |-> 0,
     lcd_on |-> FALSE, window_tilemap |-> FALSE, window_on |-> FALSE,
     tile_data_table |-> FALSE, bg_tilemap |-> FALSE, sprite_size |-> FALSE,
     sprite_on |-> FALSE, window_bg_on |-> FALSE,
     clear_screen |-> FALSE]

\* PpuWriteLcdc without the request to clear the screen.
PpuWriteLcdcNoClear(p, value) ==
    LET q == [p EXCEPT !.lcd_on = is_bit_set(value, 7),
                       !.window_tilemap = is_bit_set(value, 6),
                       !.window_on = is_bit_set(value, 5),
                       !.tile_data_table = is_bit_set(value, 4),
                       !.bg_tilemap = is_bit_set(value, 3),
                       !.sprite_size = is_bit_set(value, 2),
                       !.sprite_on = is_bit_set(value, 1),
                       !.window_bg_on = is_bit_set(value, 0)]
    IN  IF p.lcd_on /\ ~q.lcd_on
        THEN [q EXCEPT !.line = 0, !.mode = 0]
        ELSE q

\* The 0xFF40 arm of PpuRegisters::wb: the LCDC bits, and the reset when the
\* write turns the display off.
PpuWriteLcdc(p, value) ==
    LET q == [p EXCEPT !.lcd_on = is_bit_set(value, 7),
                       !.window_tilemap = is_bit_set(value, 6),
                       !.window_on = is_bit_set(value, 5),
                       !.tile_data_table = is_bit_set(value, 4),
                       !.bg_tilemap = is_bit_set(value, 3),
                       !.sprite_size = is_bit_set(value, 2),
                       !.sprite_on = is_bit_set(value, 1),
                       !.window_bg_on = is_bit_set(value, 0)]
    IN  IF p.lcd_on /\ ~q.lcd_on
        THEN [q EXCEPT !.line = 0, !.mode = 0, !.clear_screen = TRUE]
        ELSE q

\* The 0xFF40 arm of PpuRegisters::rb.
PpuReadLcdc(p) ==
    (IF p.lcd_on THEN 128 ELSE 0) + (IF p.window_tilemap THEN 64 ELSE 0)
    + (IF p.window_on THEN 32 ELSE 0) + (IF p.tile_data_table THEN 16 ELSE 0)
    + (IF p.bg_tilemap THEN 8 ELSE 0) + (IF p.sprite_size THEN 4 ELSE 0)
    + (IF p.sprite_on THEN 2 ELSE 0) + (IF p.window_bg_on THEN 1 ELSE 0)

\* PpuRegisters::wb for 0xFF40 (65344) .. 0xFF4B (65355); 0xFF44 panics and
\* 0xFF46 never reaches it (the MMU takes it as the DMA trigger).
PpuRegistersWb(p, address, value) ==
    CASE address = 65344 -> PpuWriteLcdc(p, value)
      [] address = 65345 -> [p EXCEPT !.lyc_int_enable = is_bit_set(value, 6),
                                      !.mode2_int_enable = is_bit_set(value, 5),
                                      !.mode1_int_enable = is_bit_set(value, 4),
                                      !.mode0_int_enable = is_bit_set(value, 3)]
      [] address = 65346 -> [p EXCEPT !.scy = value]
      [] address = 65347 -> [p EXCEPT !.scx = value]
      [] address = 65349 -> [p EXCEPT !.lyc = value]
      [] address = 65351 -> [p EXCEPT !.background_palette = value]
      [] address = 65352 -> [p EXCEPT !.obj_palette_0 = value]
      [] address = 65353 -> [p EXCEPT !.obj_palette_1 = value]
      [] address = 65354 -> [p EXCEPT !.win_y = value]
      [] address = 65355 -> [p EXCEPT !.win_x = value]

(***************************************************************************)
(* guest/cartridge: the cartridge image and its bank controllers.  The     *)
(* image is immutable: byte i of every image is ImageByte(i), except byte  *)
(* 0x147, the controller type of the header; an image is told from         *)
(* another by that byte and by its length.                                 *)
(***************************************************************************)

\* The size of one ROM bank, 0x4000.
BankSize == 16384

\* The contents of an image: a byte that tells both the offset in a bank and
\* the bank (37 is odd, so the banks 0..255 differ at every offset).
ImageByte(i) == (i + 37 * (i \div BankSize)) % 256

\* self.data[i] of a controller.
CartData(c, i) == IF i = 327 THEN c.header ELSE ImageByte(i)

\* Mbc0::new, Mbc1::new and MbcEmpty::new over an image of `len` bytes with
\* `header` at 0x147; cartridge RAM is kept as the set of its non-zero bytes.
Mbc0New(header, len) == [mbc |-> "mbc0", header |-> header, len |-> len]

Mbc1New(header, len) ==
    [mbc |-> "mbc1", header |-> header, len |-> len,
     ram |-> << >>, rom_bank_number |-> 1]

MbcEmptyNew == [mbc |-> "empty"]

\* Cartridge::new: the controller picked by header byte 0x147 ("" if the
\* byte is not supported, where the source panics).
CartridgeNew(header, len) ==
    CASE header = 0 -> Mbc0New(header, len)
      [] header \in 1 .. 3 -> Mbc1New(header, len)
      [] OTHER -> ""

\* A byte store kept as the set of its non-zero bytes.
ByteAt(store, offset) == IF offset \in DOMAIN store THEN store[offset] ELSE 0

StoreByte(store, offset, value) ==
    LET keep == IF value = 0 THEN DOMAIN store \ {offset}
                ELSE DOMAIN store \cup {offset}
    IN  [o \in keep |-> IF o = offset THEN value ELSE store[o]]

\* Mbc1Index with the offset of the bank below the selected one.
Mbc1IndexLessOne(c, address) ==
    IF address <= 16383 THEN address
    ELSE (address - 16384) + 16384 * (c.rom_bank_number - 1)

\* The index into the image that Mbc1::rb reads for an address in
\* 0x0000..0x7FFF.
Mbc1Index(c, address) ==
    IF address <= 16383 THEN address
    ELSE (address - 16384) + 16384 * c.rom_bank_number

\* Mbc::rb: the panic a read of the cartridge ends in, "" if it returns.
CartridgeRbPanic(c, address) ==
    CASE c.mbc = "empty" -> ""
      [] c.mbc = "mbc0" ->
            IF address < c.len THEN "" ELSE "index out of bounds"
      [] c.mbc = "mbc1" ->
            IF address <= 32767
            THEN IF Mbc1Index(c, address) < c.len THEN "" ELSE "index out of bounds"
            ELSE IF address >= 40960 /\ address <= 49151 THEN ""
            ELSE "not mapped"

\* Mbc::rb: the byte a read that returns gives.
CartridgeRb(c, address) ==
    CASE c.mbc = "empty" -> 255
      [] c.mbc = "mbc0" -> CartData(c, address)
      [] c.mbc = "mbc1" ->
            IF address <= 32767 THEN CartData(c, Mbc1Index(c, address))
            ELSE ByteAt(c.ram, address - 40960)

\* Mbc::wb: the panic a write to the cartridge ends in, "" if it returns.
CartridgeWbPanic(c, address, value) ==
    IF c.mbc = "mbc1"
    THEN CASE address <= 8191 -> "Tried to write to RAM enable bit."
           [] address >= 8192 /\ address <= 16383 -> ""
           [] address >= 40960 /\ address <= 49151 -> ""
           [] OTHER -> "Unsupported write to MBC1."
    ELSE ""

\* Mbc0::wb taking a write to 0x2000..0x3FFF as the bank select of Mbc1::wb.
Mbc0WbBanked(c, address, value) ==
    IF address >= 8192 /\ address <= 16383
    THEN [Mbc1New(c.header, c.len) EXCEPT !.rom_bank_number = value % 32]
    ELSE c

\* Mbc0::wb: an empty body.
Mbc0Wb(c, address, value) == c

\* Mbc1::wb
Mbc1Wb(c, address, value) ==
    CASE address >= 8192 /\ address <= 16383 ->
            [c EXCEPT !.rom_bank_number = value % 32]
      [] address >= 40960 /\ address <= 49151 ->
            [c EXCEPT !.ram = StoreByte(c.ram, address - 40960, value)]
      [] OTHER -> c

\* Mbc::wb: the controller a write that returns leaves.
CartridgeWb(c, address, value) ==
    CASE c.mbc = "mbc0" -> Mbc0Wb(c, address, value)
      [] c.mbc = "mbc1" -> Mbc1Wb(c, address, value)
      [] OTHER -> c

(***************************************************************************)
(* guest/mmu/mod.rs: the address space.  Every store is kept as the set of *)
(* its non-zero bytes: an offset outside the domain holds 0.  The audio    *)
(* registers are write-only (ApuRegisters::rb returns 0): the model        *)
(* carries the panics of their writes, not their contents.                 *)
(***************************************************************************)

HramBase == 65408
HramTop == 65534

InHram(address) == address >= HramBase /\ address <= HramTop

HramGet(hram, offset) == IF offset \in DOMAIN hram THEN hram[offset] ELSE 0

HramSet(hram, offset, value) ==
    LET keep == IF value = 0 THEN DOMAIN hram \ {offset}
                ELSE DOMAIN hram \cup {offset}
    IN  [o \in keep |-> IF o = offset THEN value ELSE hram[o]]

\* TimerRegisters::rb: 0xFF07 is not listed.
TimerRegistersRbPanic(address) ==
    IF address \in 65284 .. 65286 THEN "" ELSE "invalid Timer register"

TimerRegistersRb(t, address) ==
    CASE address = 65284 -> t.divider
      [] address = 65285 -> t.counter
      [] address = 65286 -> t.modulo

\* PpuRegisters::rb: 0xFF40..0xFF45 are listed.
PpuRegistersRbPanic(address) ==
    IF address \in 65344 .. 65349 THEN "" ELSE "invalid PPU register"

PpuRegistersRb(p, address) ==
    CASE address = 65344 -> PpuReadLcdc(p)
      [] address = 65345 ->
            (IF p.lyc_int_enable THEN 64 ELSE 0) + (IF p.mode2_int_enable THEN 32 ELSE 0)
            + (IF p.mode1_int_enable THEN 16 ELSE 0) + (IF p.mode0_int_enable THEN 8 ELSE 0)
            + BitOr(IF p.line = p.lyc THEN 4 ELSE 0, p.mode)
      [] address = 65346 -> p.scy
      [] address = 65347 -> p.scx
      [] address = 65348 -> p.line
      [] address = 65349 -> p.lyc

\* PpuRegisters::wb: the panic of a write, "" if it returns.
PpuRegistersWbPanic(address) ==
    IF address \in (65344 .. 65355) \ {65348, 65350} THEN ""
    ELSE IF address = 65348 THEN "Cannot set hwreg.line"
    ELSE "invalid ppu register"

\* ApuRegisters::wb: the panic of a write, "" if it returns.
ApuRegistersWbPanic(address) ==
    IF address \in (65296 .. 65300) \cup (65302 .. 65310) \cup (65312 .. 65318)
                   \cup (65328 .. 65343)
    THEN "" ELSE "APU register not implemented"

\* MMU::rb: the panic a read ends in, "" if it returns.
rb_panic(m, address) ==
    CASE address <= 32767 ->
            IF address <= 255 /\ m.bootloader.is_enabled THEN ""
            ELSE CartridgeRbPanic(m.cartridge, address)
      [] address >= 32768 /\ address <= 40959 -> ""
      [] address >= 49152 /\ address <= 65023 -> ""
      [] address >= 65024 /\ address <= 65279 -> ""
      [] address \in {65280, 65281, 65282, 65295} -> ""
      [] address >= 65284 /\ address <= 65287 -> TimerRegistersRbPanic(address)
      [] address >= 65296 /\ address <= 65343 -> ""
      [] address = 65350 -> "0xff46: OAM DMA cannot be read from."
      [] address >= 65344 /\ address <= 65355 /\ address # 65350 ->
            PpuRegistersRbPanic(address)
      [] address >= 65408 -> ""
      [] OTHER -> "not mapped"

\* MMU::rb: the byte a read that returns gives.
rb(m, address) ==
    CASE InHram(address) -> HramGet(m.hram, address - HramBase)
      [] address = 65295 -> m.interrupts.intf
      [] address = 65535 -> m.interrupts.inte
      [] address <= 32767 ->
            IF address <= 255 /\ m.bootloader.is_enabled
            THEN ByteAt(m.bootloader.data, address)
            ELSE CartridgeRb(m.cartridge, address)
      [] address >= 32768 /\ address <= 40959 -> ByteAt(m.vram, address - 32768)
      [] address >= 49152 /\ address <= 57343 -> ByteAt(m.sram, address - 49152)
      [] address >= 57344 /\ address <= 65023 ->
            ByteAt(m.sram, address - 49152 - 8192)
      [] address >= 65024 /\ address <= 65183 -> ByteAt(m.oam, address - 65024)
      [] address >= 65184 /\ address <= 65279 -> 255
      [] address = 65280 -> m.gamepad
      [] address \in {65281, 65282} -> 0
      [] address >= 65284 /\ address <= 65286 -> TimerRegistersRb(m.timer, address)
      [] address >= 65296 /\ address <= 65343 -> 0
      [] address >= 65344 /\ address <= 65349 -> PpuRegistersRb(m.ppu, address)

\* The 0xFE00..=0xFE9F arm of MMU::wb.
OamWrite(m, n, value) == [m EXCEPT !.oam = StoreByte(m.oam, n, value)]

\* MMU::oam_dma: the first n of 0..159 whose source read rb(base + n)
\* panics, 160 if none does.
OamDmaStop(m, base) ==
    LET bad == {n \in 0 .. 159 : rb_panic(m, base + n) # ""}
    IN  IF bad = {} THEN 160 ELSE CHOOSE n \in bad : \A k \in bad : n <= k

\* MMU::oam_dma: the panic of the first source read that panics, "" if none.
oam_dma_panic(m, value) ==
    LET stop == OamDmaStop(m, value * 256)
    IN  IF stop = 160 THEN "" ELSE rb_panic(m, value * 256 + stop)

\* MMU::oam_dma: wb(0xFE00 + n, rb(base + n)) for n = 0 .. 159 in turn, up to
\* the first read that panics.  No read sees a byte the loop wrote: base + n
\* is a sprite-table address only for value 0xFE, where step n reads byte n
\* before it writes it.
oam_dma(m, value) ==
    LET base == value * 256
        stop == OamDmaStop(m, base)
        copied == [n \in 0 .. 159 |->
                     IF n < stop THEN rb(m, base + n) ELSE ByteAt(m.oam, n)]
    IN  [m EXCEPT !.oam = [n \in {k \in 0 .. 159 : copied[k] # 0} |-> copied[n]]]

\* MMU::wb: the panic a write ends in, "" if it returns.
wb_panic(m, address, value) ==
    CASE address <= 32767 -> CartridgeWbPanic(m.cartridge, address, value)
      [] address >= 32768 /\ address <= 40959 -> ""
      [] address >= 40960 /\ address <= 49151 ->
            CartridgeWbPanic(m.cartridge, address, value)
      [] address >= 49152 /\ address <= 57343 -> ""
      [] address >= 65024 /\ address <= 65279 -> ""
      [] address \in {65280, 65281, 65282, 65295, 65360, 65407} -> ""
      [] address >= 65284 /\ address <= 65287 -> ""
      [] address >= 65296 /\ address <= 65343 -> ApuRegistersWbPanic(address)
      [] address = 65350 -> oam_dma_panic(m, value)
      [] address >= 65344 /\ address <= 65355 /\ address # 65350 ->
            PpuRegistersWbPanic(address)
      [] address >= 65408 -> ""
      [] OTHER -> "not mapped"

\* MMU::wb: the MMU a write that returns leaves.
wb(m, address, value) ==
    CASE InHram(address) ->
            [m EXCEPT !.hram = HramSet(m.hram, address - HramBase, value)]
      [] address >= 65284 /\ address <= 65287 ->
            [m EXCEPT !.timer = TimerRegistersWb(m.timer, address, value)]
      [] address = 65295 -> [m EXCEPT !.interrupts.intf = value]
      [] address = 65350 -> oam_dma(m, value)
      [] address >= 65344 /\ address <= 65355 /\ address # 65350 ->
            [m EXCEPT !.ppu = PpuRegistersWb(m.ppu, address, value)]
      [] address = 65535 -> [m EXCEPT !.interrupts.inte = value]
      [] address <= 32767 \/ (address >= 40960 /\ address <= 49151) ->
            [m EXCEPT !.cartridge = CartridgeWb(m.cartridge, address, value)]
      [] address >= 32768 /\ address <= 40959 ->
            [m EXCEPT !.vram = StoreByte(m.vram, address - 32768, value)]
      [] address >= 49152 /\ address <= 57343 ->
            [m EXCEPT !.sram = StoreByte(m.sram, address - 49152, value)]
      [] address >= 65024 /\ address <= 65183 -> OamWrite(m, address - 65024, value)
      [] address = 65280 -> [m EXCEPT !.gamepad = value]
      [] address = 65360 -> [m EXCEPT !.bootloader.is_enabled = FALSE]
      [] OTHER -> m

\* MMU::rw: the least-significant byte first.
rw(m, address) == rb(m, address) + 256 * rb(m, U16(address + 1))

\* MMU::ww: the least-significant byte first.
ww(m, address, value) ==
    wb(wb(m, address, value % 256), U16(address + 1), value \div 256)

\* MMU::ww, the panic it ends in (if any).
ww_panic(m, address, value) ==
    IF wb_panic(m, address, value % 256) # ""
    THEN wb_panic(m, address, value % 256)
    ELSE wb_panic(wb(m, address, value % 256), U16(address + 1), value \div 256)

\* MMU::rw, the panic it ends in (if any).
rw_panic(m, address) ==
    IF rb_panic(m, address) # "" THEN rb_panic(m, address)
    ELSE rb_panic(m, U16(address + 1))

\* A push that stores the word at the stack pointer and lowers it afterwards.
push_stack_write_first(m, address) ==
    LET m1 == ww(m, m.sp, address)
    IN  [m1 EXCEPT !.sp = U16(m.sp - 2 + 65536)]

\* MMU::push_stack
push_stack(m, address) ==
    LET m1 == [m EXCEPT !.sp = U16(m.sp - 2 + 65536)]
    IN  ww(m1, m1.sp, address)

\* MMU::pop_stack: the MMU it leaves and the word it returns.
pop_stack(m) ==
    [st |-> [m EXCEPT !.sp = U16(m.sp + 2)], ret |-> rw(m, m.sp)]

\* BOOTROM_MMU_VALUES, the entries whose registers the model carries (the
\* others are audio registers).
BOOTROM_MMU_VALUES ==
    << <<65285, 0>>, <<65286, 0>>, <<65287, 0>>, <<65344, 145>>,
       <<65346, 0>>, <<65347, 0>>, <<65349, 0>>, <<65351, 252>>,
       <<65352, 255>>, <<65353, 255>>, <<65354, 0>>, <<65355, 0>> >>

RECURSIVE WriteAll(_, _)
WriteAll(m, writes) ==
    IF writes = << >> THEN m
    ELSE WriteAll(wb(m, Head(writes)[1], Head(writes)[2]), Tail(writes))

\* BootLoader::new(false)
BootLoaderNew == [data |-> << >>, is_enabled |-> FALSE]

\* MMU::new(cartridge, use_bootrom = false) around a cartridge: the state
\* after the boot ROM.
MMUNewWith(cartridge) ==
    LET m0 == [bootloader |-> BootLoaderNew,
               cartridge |-> cartridge,
               interrupts |-> InterruptsNew,
               timer |-> TimerRegistersNew,
               ppu |-> PpuRegistersNew,
               hram |-> << >>, oam |-> << >>, sram |-> << >>, vram |-> << >>,
               gamepad |-> 47,
               pc |-> 0, sp |-> 0, a |-> 0, f |-> 0,
               b |-> 0, c |-> 0, d |-> 0, e |-> 0, h |-> 0, l |-> 0]
    IN  [WriteAll(m0, BOOTROM_MMU_VALUES) EXCEPT !.a = 1, !.f = 176,
                                                  !.b = 0, !.c = 19, !.d = 0, !.e = 216,
                                                  !.h = 1, !.l = 77,
                                                  !.pc = 256, !.sp = 65534]

\* The image of a 32 KiB cartridge without a bank controller.
Mbc0Cartridge == CartridgeNew(0, 2 * BankSize)

\* MMU::new(cartridge, use_bootrom = false) with a 32 KiB non-banked cartridge.
MMUNew == MMUNewWith(Mbc0Cartridge)

\* The vector of interrupt n: 0x0040 + (n << 3).
InterruptVector(n) == 64 + n * 8

\* MMU::try_interrupt jumping without pushing the program counter.
mmu_try_interrupt_no_push(m) ==
    LET r == try_interrupt(m.interrupts)
        m1 == [m EXCEPT !.interrupts = r.st]
    IN  IF r.panic # "" THEN [st |-> m1, ret |-> 0, irq |-> None, panic |-> r.panic]
        ELSE IF r.ret = None THEN [st |-> m1, ret |-> 0, irq |-> None, panic |-> ""]
        ELSE [st |-> [m1 EXCEPT !.pc = InterruptVector(r.ret)],
              ret |-> 4, irq |-> r.ret, panic |-> ""]

\* MMU::try_interrupt: the MMU it leaves, the cycles it returns, the index it
\* serviced (None if none) and the panic it ends in (if any).
mmu_try_interrupt(m) ==
    LET r == try_interrupt(m.interrupts)
        m1 == [m EXCEPT !.interrupts = r.st]
    IN  IF r.panic # "" THEN [st |-> m1, ret |-> 0, irq |-> None, panic |-> r.panic]
        ELSE IF r.ret = None THEN [st |-> m1, ret |-> 0, irq |-> None, panic |-> ""]
        ELSE IF r.ret < 5
        THEN [st |-> [push_stack(m1, m1.pc) EXCEPT !.pc = InterruptVector(r.ret)],
              ret |-> 4, irq |-> r.ret, panic |-> ""]
        ELSE [st |-> m1, ret |-> 0, irq |-> None,
              panic |-> "Handled invalid interrupt flag"]

\* check_lyc_interrupt without the test of the enable bit.
check_lyc_interrupt_always(m) ==
    IF m.ppu.line = m.ppu.lyc
    THEN [m EXCEPT !.interrupts.intf = BitOr(m.interrupts.intf, 2)]
    ELSE m

\* MMU::check_lyc_interrupt
check_lyc_interrupt(m) ==
    IF m.ppu.lyc_int_enable /\ m.ppu.line = m.ppu.lyc
    THEN [m EXCEPT !.interrupts.intf = BitOr(m.interrupts.intf, 2)]
    ELSE m


(***************************************************************************)
(* guest/cpu.rs: the CPU step.  The opcode byte at the program counter is  *)
(* an input (the cartridge image); the model dispatches NOP, the           *)
(* conditional jumps and returns, RET, RETI, POP AF, DI and EI, and the     *)
(* opcodes the source's match does not list (0x76 among them).             *)
(***************************************************************************)

\* MMU::set_af (create_register_pair!): the high byte to a, the low byte to f.
set_af(m, value) == [m EXCEPT !.a = value \div 256, !.f = value % 256]

\* MMU::get_next_byte: the program counter moves past the byte read.
get_next_byte(m) == [m EXCEPT !.pc = U16(m.pc + 1)]

\* MMU::flag_z and MMU::flag_c (create_flag!): bits 7 and 4 of f.
flag_z(m) == is_bit_set(m.f, 7)
flag_c(m) == is_bit_set(m.f, 4)

\* MMU::get_signed_byte as CPU::do_opcode uses it, `r8 as u16`: the byte at
\* the program counter sign-extended to 16 bits.
get_signed_byte(m) ==
    LET byte == rb(m, m.pc)
    IN  IF byte >= 128 THEN 65280 + byte ELSE byte

\* MMU::get_next_word: the word at the program counter.
get_next_word(m) == rw(m, m.pc)

\* data/opcodes.json, the t-states of the opcodes the model dispatches: one
\* cost, or for a conditional opcode the cost of the taken branch followed by
\* the cost of the untaken one.
OpcodeTStates(opcode) ==
    CASE opcode = 0 -> <<4>>                              \* 0x00 NOP
      [] opcode = 118 -> <<4>>                            \* 0x76 HALT
      [] opcode \in 64 .. 127 /\ opcode # 118 ->          \* 0x40-0x7F LD r,r'
            IF opcode % 8 = 6 \/ opcode \in 112 .. 119 THEN <<8>> ELSE <<4>>
      [] opcode \in {32, 40, 48, 56} -> <<12, 8>>         \* JR NZ/Z/NC/C,r8
      [] opcode \in {192, 200, 208, 216} -> <<20, 8>>     \* RET NZ/Z/NC/C
      [] opcode \in {194, 202, 210, 218} -> <<16, 12>>    \* JP NZ/Z/NC/C,a16
      [] opcode = 195 -> <<16>>                           \* 0xC3 JP a16
      [] opcode \in {196, 204, 212, 220} -> <<24, 12>>    \* CALL NZ/Z/NC/C,a16
      [] opcode = 201 -> <<16>>                           \* 0xC9 RET
      [] opcode = 217 -> <<16>>                           \* 0xD9 RETI
      [] opcode = 241 -> <<12>>                           \* 0xF1 POP AF
      [] opcode = 243 -> <<4>>                            \* 0xF3 DI
      [] opcode = 251 -> <<4>>                            \* 0xFB EI

\* OpCodes::get_cycles: m-cycles, the t-states divided by four; cycles[1] if
\* the action was taken, else cycles[0].
get_cycles(opcode, action_taken) ==
    IF action_taken THEN OpcodeTStates(opcode)[2] \div 4
    ELSE OpcodeTStates(opcode)[1] \div 4

\* The condition of a conditional opcode CPU::do_opcode dispatches, as its
\* arm tests it.
condition_met(m, opcode) ==
    CASE opcode \in {32, 192, 194} -> ~flag_z(m)
      [] opcode \in {40, 200, 202} -> flag_z(m)
      [] opcode \in {48, 208} -> ~flag_c(m)
      [] opcode \in {56, 216} -> flag_c(m)
      [] OTHER -> FALSE

\* MMU::hl (create_register_pair!): h is the high byte, l the low byte.
hl(m) == m.h * 256 + m.l

\* The opcodes 0x40..0x7F that CPU::do_opcode has an arm for.
LoadOpcodes ==
    (64 .. 127) \ {65, 66, 67, 68, 69, 72, 74, 75, 76, 77, 102, 110, 118, 127}

\* The value the arm of a load opcode reads: a register, or the byte at HL
\* for 0x46, 0x4E, 0x56, 0x5E and 0x7E.
LoadSource(m, opcode) ==
    CASE opcode % 8 = 0 -> m.b
      [] opcode % 8 = 1 -> m.c
      [] opcode % 8 = 2 -> m.d
      [] opcode % 8 = 3 -> m.e
      [] opcode % 8 = 4 -> m.h
      [] opcode % 8 = 5 -> m.l
      [] opcode % 8 = 6 -> rb(m, hl(m))
      [] opcode % 8 = 7 -> m.a

\* The arm of a load opcode: the assignment it makes.
LoadArm(m, opcode) ==
    LET v == LoadSource(m, opcode)
    IN  CASE opcode \in {64, 73, 82} -> m                       \* `()`
          [] opcode \in {70, 71} -> [m EXCEPT !.b = v]
          [] opcode \in {78, 79} -> [m EXCEPT !.c = v]
          [] opcode \in (80 .. 87) \ {82} -> [m EXCEPT !.d = v]
          [] opcode \in 88 .. 92 -> [m EXCEPT !.a = v]          \* 0x58-0x5C: mmu.a
          [] opcode \in 93 .. 95 -> [m EXCEPT !.e = v]
          [] opcode \in 96 .. 103 -> [m EXCEPT !.h = v]
          [] opcode \in 104 .. 111 -> [m EXCEPT !.l = v]
          [] opcode \in 112 .. 119 -> wb(m, hl(m), v)
          [] opcode \in 120 .. 126 -> [m EXCEPT !.a = v]

\* The panic of the reads an opcode's arm makes (if any): the operand bytes
\* at the program counter, the word a return pops, the byte at HL.
OperandPanic(m1, opcode) ==
    CASE opcode \in {32, 40, 48, 56} -> rb_panic(m1, m1.pc)
      [] opcode \in LoadOpcodes /\ opcode % 8 = 6 -> rb_panic(m1, hl(m1))
      [] opcode \in LoadOpcodes /\ opcode \in 112 .. 119 ->
            wb_panic(m1, hl(m1), LoadSource(m1, opcode))
      [] opcode \in {194, 195, 202} -> rw_panic(m1, m1.pc)
      [] opcode \in {192, 200, 208, 216} ->
            IF condition_met(m1, opcode) THEN rw_panic(m1, m1.sp) ELSE ""
      [] OTHER -> ""

\* CPU::do_opcode on the unprefixed opcode byte read at the program counter:
\* the MMU it leaves, the cycles it returns and the panic it ends in (if any).
do_opcode(m, opcode) ==
    LET m1 == get_next_byte(m)
        met == condition_met(m1, opcode)
        cycles == get_cycles(opcode, met)
        popped == pop_stack(m1)
        r8 == get_signed_byte(m1)
        m2 == [m1 EXCEPT !.pc = U16(m1.pc + 1)]
        a16 == get_next_word(m1)
        m3 == [m1 EXCEPT !.pc = U16(m1.pc + 2)]
    IN  IF OperandPanic(m1, opcode) # ""
        THEN [st |-> m1, ret |-> 0, panic |-> OperandPanic(m1, opcode)]
        ELSE
        CASE opcode = 0 -> [st |-> m1, ret |-> cycles, panic |-> ""]
          [] opcode \in {32, 40, 48} ->
                [st |-> IF met THEN [m2 EXCEPT !.pc = U16(m2.pc + r8)] ELSE m2,
                 ret |-> cycles, panic |-> ""]
          [] opcode = 56 -> [st |-> m2, ret |-> cycles, panic |-> ""]
          [] opcode \in {192, 200, 208, 216} ->
                [st |-> IF met THEN [popped.st EXCEPT !.pc = popped.ret] ELSE m1,
                 ret |-> cycles, panic |-> ""]
          [] opcode \in {194, 202} ->
                [st |-> IF met THEN [m3 EXCEPT !.pc = a16] ELSE m3,
                 ret |-> cycles, panic |-> ""]
          [] opcode \in LoadOpcodes ->
                [st |-> LoadArm(m1, opcode), ret |-> cycles, panic |-> ""]
          [] opcode = 195 -> [st |-> [m3 EXCEPT !.pc = a16], ret |-> cycles, panic |-> ""]
          [] opcode = 201 ->
                [st |-> [popped.st EXCEPT !.pc = popped.ret],
                 ret |-> cycles, panic |-> ""]
          [] opcode = 217 ->
                [st |-> [popped.st EXCEPT !.pc = popped.ret,
                            !.interrupts = enable_ime(popped.st.interrupts, 1)],
                 ret |-> cycles, panic |-> ""]
          [] opcode = 241 ->
                [st |-> set_af(popped.st, popped.ret), ret |-> cycles, panic |-> ""]
          [] opcode = 243 ->
                [st |-> [m1 EXCEPT !.interrupts = disable_ime(m1.interrupts)],
                 ret |-> cycles, panic |-> ""]
          [] opcode = 251 ->
                [st |-> [m1 EXCEPT !.interrupts = enable_ime(m1.interrupts, 2)],
                 ret |-> cycles, panic |-> ""]
          [] OTHER -> [st |-> m1, ret |-> 0, panic |-> "unimplemented opcode"]

\* The opcode field of a step that fetched no opcode.
NoOpcode == None

\* A step that does the opcode whether or not the CPU is halted.
step_ignores_halt(m, opcode) ==
    LET m1 == [m EXCEPT !.interrupts = tick_ime_timer(m.interrupts)]
        t == mmu_try_interrupt(m1)
        o == do_opcode(t.st, opcode)
    IN  IF t.panic # ""
        THEN [st |-> t.st, ret |-> 0, irq |-> None, opcode |-> NoOpcode, panic |-> t.panic]
        ELSE IF t.ret = 0
        THEN [st |-> o.st, ret |-> o.ret, irq |-> None, opcode |-> opcode,
              panic |-> o.panic]
        ELSE [st |-> t.st, ret |-> t.ret, irq |-> t.irq, opcode |-> NoOpcode, panic |-> ""]

\* CPU::step: the MMU it leaves, the cycles it returns, the interrupt it
\* serviced (None if none), the opcode it fetched (NoOpcode if none) and the
\* panic it ends in (if any).
step(m, opcode) ==
    LET m1 == [m EXCEPT !.interrupts = tick_ime_timer(m.interrupts)]
        t == mmu_try_interrupt(m1)
        o == do_opcode(t.st, opcode)
    IN  IF t.panic # ""
        THEN [st |-> t.st, ret |-> 0, irq |-> None, opcode |-> NoOpcode, panic |-> t.panic]
        ELSE IF t.ret = 0
        THEN IF t.st.interrupts.is_halted
             THEN [st |-> t.st, ret |-> 1, irq |-> None, opcode |-> NoOpcode, panic |-> ""]
             ELSE [st |-> o.st, ret |-> o.ret, irq |-> None, opcode |-> opcode,
                   panic |-> o.panic]
        ELSE [st |-> t.st, ret |-> t.ret, irq |-> t.irq, opcode |-> NoOpcode, panic |-> ""]


(***************************************************************************)
(* Bounds of the model and the inputs drawn from them.                     *)
(***************************************************************************)

\* Bytes written to the two interrupt registers: 0 .. MaxInterruptByte holds
\* every 5-bit mask and bytes with a bit above bit 4.
MaxInterruptByte == 33
InterruptBytes == 0 .. MaxInterruptByte

\* The observer of ticks stops counting here.
TickCap == 3

\* CPU steps of one run.
MaxCpuSteps == 4

\* The opcode bytes the cartridge image holds.
Opcodes == {0, 118, 201, 217, 241, 243, 251}

\* The masks the guest writes to the two interrupt registers between CPU steps.
CpuMasks == {0, 5, 21, 31}

(***************************************************************************)
(* The state after construction.                                           *)
(***************************************************************************)

\* The image buffer of the display controller, carried for BufRows x BufCols pixels.
BufRows == 1
BufCols == 1

\* The index draw_pixel computes: line * 160 + col.
PixelIndex(line, col) == line * 160 + col

BufferCells == {PixelIndex(line, col) : line \in 0 .. BufRows - 1, col \in 0 .. BufCols - 1}

\* [0; 160 * 144]
ClearedBuffer == [i \in BufferCells |-> 0]

\* PPU::new
PPUNew == [modeclock |-> 0, image_buffer |-> ClearedBuffer]

\* Timer::new
TimerNew == [divider_lapsed |-> 0, counter_lapsed |-> 0, at |-> "idle", cycles |-> 0]

\* APU::new: output_buffer is carried as its length.
APUNew == [clock |-> 0, counter |-> 0, output_buffer |-> 0]

\* Audio::new: the queue of the playback device is empty.
AudioNew == [queued |-> 0]

\* emulate_frame has not been called: `at` is the position in the method,
\* `calls` the calls that have returned.
FrameNew == [at |-> "idle", cycle_count |-> 0, cycles |-> 0, calls |-> 0]

NoCall == [op |-> "new", ret |-> None, irq |-> None, opcode |-> NoOpcode]

Called(op, ret) == [op |-> op, ret |-> ret, irq |-> None, opcode |-> NoOpcode]

Running == fatal = ""

(***************************************************************************)
(* The interrupt controller, called as its unit tests call it.             *)
(***************************************************************************)

IntDisableIme ==
    /\ Running
    /\ mmu' = [mmu EXCEPT !.interrupts = disable_ime(mmu.interrupts)]
    /\ last' = Called("disable_ime", None)
    /\ ticksSinceDisable' =
          IF mmu.interrupts.ime /\ mmu.interrupts.enable_ime_counter = 0
          THEN 0 ELSE -1
    /\ UNCHANGED <<timer, ppu, fatal, cpuSteps, ppuElapsed, ppuPowerOff, timerObs, Host>>

IntEnableIme(delay) ==
    /\ Running
    /\ mmu' = [mmu EXCEPT !.interrupts = enable_ime(mmu.interrupts, delay)]
    /\ last' = Called("enable_ime", None)
    /\ ticksSinceDisable' = -1
    /\ UNCHANGED <<timer, ppu, fatal, cpuSteps, ppuElapsed, ppuPowerOff, timerObs, Host>>

TickObserved(n) == IF n < 0 THEN n ELSE IF n < TickCap THEN n + 1 ELSE TickCap

IntTick ==
    /\ Running
    /\ mmu' = [mmu EXCEPT !.interrupts = tick_ime_timer(mmu.interrupts)]
    /\ last' = Called("tick_ime_timer", None)
    /\ ticksSinceDisable' = TickObserved(ticksSinceDisable)
    /\ UNCHANGED <<timer, ppu, fatal, cpuSteps, ppuElapsed, ppuPowerOff, timerObs, Host>>

IntTryInterrupt ==
    /\ Running
    /\ LET r == try_interrupt(mmu.interrupts)
       IN  /\ mmu' = [mmu EXCEPT !.interrupts = r.st]
           /\ last' = Called("try_interrupt", r.ret)
           /\ fatal' = r.panic
    /\ UNCHANGED <<timer, ppu, ticksSinceDisable, cpuSteps, ppuElapsed, ppuPowerOff, timerObs, Host>>

\* A guest write to 0xFF0F (65295) or 0xFFFF (65535).
WriteInterruptRegister(address, value) ==
    /\ Running
    /\ mmu' = wb(mmu, address, value)
    /\ last' = Called("wb", None)
    /\ UNCHANGED <<timer, ppu, fatal, ticksSinceDisable, cpuSteps, ppuElapsed, ppuPowerOff, timerObs, Host>>

IntWriteIF == \E v \in InterruptBytes : WriteInterruptRegister(65295, v)

IntWriteIE == \E v \in InterruptBytes : WriteInterruptRegister(65535, v)

InitInt ==
    /\ mmu = MMUNew
    /\ timer = TimerNew
    /\ ppu = PPUNew
    /\ fatal = ""
    /\ last = NoCall
    /\ ticksSinceDisable = -1
    /\ cpuSteps = 0
    /\ ppuElapsed = 0
    /\ ppuPowerOff = "no"
    /\ timerObs = [fed |-> 0, counter0 |-> 0]
    /\ apu = APUNew
    /\ audio = AudioNew
    /\ frame = FrameNew

NextInt ==
    \/ IntDisableIme
    \/ \E delay \in {1, 2} : IntEnableIme(delay)
    \/ IntTick
    \/ IntTryInterrupt
    \/ IntWriteIF
    \/ IntWriteIE

SpecInt == InitInt /\ [][NextInt]_vars


(***************************************************************************)
(* The CPU stepping through a cartridge image, with guest writes to the    *)
(* two interrupt registers in between.                                     *)
(***************************************************************************)

\* RET, RETI and POP AF are drawn when a frame is on the stack: the stack of
\* this model lies in high RAM, below the boot value of the stack pointer.
Fetchable(opcode) == opcode \in {201, 217, 241} => (InHram(mmu.sp) /\ mmu.sp < HramTop)

CpuStep ==
    /\ Running
    /\ cpuSteps < MaxCpuSteps
    /\ \E opcode \in Opcodes :
          /\ Fetchable(opcode)
          /\ LET r == step(mmu, opcode)
             IN  /\ mmu' = r.st
                 /\ last' = [op |-> "step", ret |-> r.ret, irq |-> r.irq,
                             opcode |-> r.opcode]
                 /\ fatal' = r.panic
    /\ cpuSteps' = cpuSteps + 1
    /\ UNCHANGED <<timer, ppu, ticksSinceDisable, ppuElapsed, ppuPowerOff, timerObs, Host>>

CpuWriteIF == \E v \in CpuMasks : WriteInterruptRegister(65295, v)

CpuWriteIE == \E v \in CpuMasks : WriteInterruptRegister(65535, v)

NextCpu == CpuStep \/ CpuWriteIF \/ CpuWriteIE

SpecCpu == InitInt /\ [][NextCpu]_vars

(***************************************************************************)
(* Claims about the interrupt controller and the CPU step.                 *)
(***************************************************************************)

\* The indices 0..4 enabled in inte and requested in intf.
ActiveSet(i) == {n \in 0 .. 4 : is_bit_set(i.inte, n) /\ is_bit_set(i.intf, n)}

Lowest(S) == CHOOSE n \in S : \A k \in S : n <= k

\* C1: with master-enable true and both masks <= 0x1F, try_interrupt returns
\* the lowest index enabled and requested, clears exactly that request bit and
\* leaves the enable mask alone; with none enabled and requested it returns
\* none and changes nothing; a call right after a call that returned an index
\* returns a higher index or none.
C1_TryInterruptPriority ==
    [][ (/\ last'.op = "try_interrupt"
         /\ mmu.interrupts.ime
         /\ mmu.interrupts.inte <= 31
         /\ mmu.interrupts.intf <= 31)
        => LET i == mmu.interrupts
               j == mmu'.interrupts
           IN  /\ j.inte = i.inte
               /\ fatal' = ""
               /\ IF ActiveSet(i) = {}
                  THEN last'.ret = None /\ j.intf = i.intf
                  ELSE /\ last'.ret = Lowest(ActiveSet(i))
                       /\ j.intf = i.intf - Pow2(Lowest(ActiveSet(i)))
               /\ (last.op = "try_interrupt" /\ last.ret # None)
                     => (last'.ret = None \/ last'.ret > last.ret) ]_vars

\* C1 witness: a call returned Timer (2) with Joypad (4) still enabled and
\* requested, as in test_try_interrupt.
C1_Witness ==
    /\ last.op = "try_interrupt"
    /\ last.ret = 2
    /\ mmu.interrupts.ime
    /\ mmu.interrupts.inte = 28
    /\ mmu.interrupts.intf = 16

\* C2: one tick after a disable_ime call made with master-enable true and no
\* enable pending, master-enable is still true; from the second tick on it is
\* false, as long as no enable is requested.
C2_DisableDelay ==
    /\ ticksSinceDisable \in {0, 1} => mmu.interrupts.ime
    /\ ticksSinceDisable >= 2 => ~mmu.interrupts.ime

\* C2 witness: three ticks after the call, master-enable false.
C2_Witness ==
    /\ ticksSinceDisable = 3
    /\ ~mmu.interrupts.ime
    /\ last.op = "tick_ime_timer"

\* C3: a CPU step whose try_interrupt yields index n pushes the program
\* counter the step started with (SP is 2 lower and the word at SP is the old
\* PC), sets PC to 0x0040 + 8n, returns 4 and fetches no opcode.
C3_InterruptDispatch ==
    [][ (last'.op = "step" /\ last'.irq # None)
        => /\ mmu'.sp = U16(mmu.sp + 65534)
           /\ rw(mmu', mmu'.sp) = mmu.pc
           /\ mmu'.pc = 64 + 8 * last'.irq
           /\ last'.ret = 4
           /\ last'.opcode = NoOpcode
           /\ last'.irq \in ActiveSet(mmu.interrupts) ]_vars

\* C3 witness: a step serviced Timer (2) from a program counter other than
\* the reset value, the frame of an earlier interrupt still on the stack.
C3_Witness ==
    /\ last.op = "step"
    /\ last.irq = 2
    /\ mmu.pc = 80
    /\ mmu.sp = 65530
    /\ rw(mmu, 65530) = 65
    /\ rw(mmu, 65532) = 257


(***************************************************************************)
(* guest/systems/timer.rs: Timer::step, one action per entry to the        *)
(* method, per iteration of each of its two loops and per loop exit.       *)
(***************************************************************************)

CPU_FREQ == 4194304

DIVIDER_FREQ == CPU_FREQ \div 16384

\* DIVIDER_TICKSIZE as u16, as the loop compares it.
DIVIDER_TICKSIZE == U16(CPU_FREQ \div DIVIDER_FREQ)

\* The divisor the match on mmu.timer.clock selects.
ClockDivisor(clock) ==
    CASE clock = 0 -> 1024
      [] clock = 1 -> 16
      [] clock = 2 -> 64
      [] clock = 3 -> 256

\* timer_ticksize: the match's usize value cast `as u16`.
timer_ticksize(clock) == U16(CPU_FREQ \div ClockDivisor(clock))

\* The cycle counts a step is called with: m-cycle costs in t-states.
MaxMCycles == 6
CycleSet == {4 * k : k \in 1 .. MaxMCycles}

\* Cycles fed to Timer::step in one run.
MaxTimerCycles == 16408

\* The values the guest writes to the timer registers before the first step.
TimerWrites ==
    ({65285} \X {0, 255}) \cup ({65286} \X {0, 171}) \cup ({65287} \X (0 .. 7))

\* The body of the counter loop: the counter advances, and reloads from
\* modulo when it wraps to 0.
CounterTick(t) ==
    LET c == U8(t.counter + 1)
    IN  [t EXCEPT !.counter = IF c = 0 THEN t.modulo ELSE c]

\* A guest write to a timer register, before the timer has run.
TimerWrite ==
    /\ Running
    /\ timer.at = "idle"
    /\ timerObs.fed = 0
    /\ \E w \in TimerWrites :
          /\ mmu' = wb(mmu, w[1], w[2])
          /\ timerObs' = [timerObs EXCEPT !.counter0 = mmu'.timer.counter]
    /\ last' = Called("wb", None)
    /\ UNCHANGED <<timer, ppu, fatal, ticksSinceDisable, cpuSteps, ppuElapsed, ppuPowerOff, Host>>

\* Timer::step is entered: the divider's lapsed count takes the cycles.
TimerStepEnter ==
    /\ Running
    /\ timer.at = "idle"
    /\ \E cycles \in CycleSet :
          /\ timerObs.fed + cycles <= MaxTimerCycles
          /\ timer' = [timer EXCEPT !.divider_lapsed = U16(@ + cycles),
                                    !.at = "divider", !.cycles = cycles]
          /\ timerObs' = [timerObs EXCEPT !.fed = @ + cycles]
    /\ last' = Called("timer_step", None)
    /\ UNCHANGED <<mmu, ppu, fatal, ticksSinceDisable, cpuSteps, ppuElapsed, ppuPowerOff, Host>>

\* One iteration of the divider loop.
TimerDividerTick ==
    /\ timer.at = "divider"
    /\ timer.divider_lapsed >= DIVIDER_TICKSIZE
    /\ mmu' = [mmu EXCEPT !.timer.divider = U8(@ + 1)]
    /\ timer' = [timer EXCEPT !.divider_lapsed = @ - DIVIDER_TICKSIZE]
    /\ UNCHANGED <<ppu, fatal, last, ticksSinceDisable, cpuSteps, ppuElapsed, ppuPowerOff, timerObs, Host>>

\* A counter that runs whatever the enable bit.
CounterRunsAlways(t) == TRUE

\* `if mmu.timer.started`: the counter block of Timer::step runs.
CounterRuns(t) == t.started

\* The divider loop exits: the counter's lapsed count takes the cycles if the
\* timer is started, else the step returns.
TimerDividerDone ==
    /\ timer.at = "divider"
    /\ timer.divider_lapsed < DIVIDER_TICKSIZE
    /\ timer' = IF CounterRuns(mmu.timer)
                THEN [timer EXCEPT !.counter_lapsed = U16(@ + timer.cycles),
                                   !.at = "counter"]
                ELSE [timer EXCEPT !.at = "idle", !.cycles = 0]
    /\ UNCHANGED <<mmu, ppu, fatal, last, ticksSinceDisable, cpuSteps, ppuElapsed, ppuPowerOff, timerObs, Host>>

\* One iteration of the counter loop.
TimerCounterTick ==
    /\ timer.at = "counter"
    /\ timer.counter_lapsed >= timer_ticksize(mmu.timer.clock)
    /\ mmu' = [mmu EXCEPT !.timer = CounterTick(mmu.timer)]
    /\ timer' = [timer EXCEPT !.counter_lapsed = @ - timer_ticksize(mmu.timer.clock)]
    /\ UNCHANGED <<ppu, fatal, last, ticksSinceDisable, cpuSteps, ppuElapsed, ppuPowerOff, timerObs, Host>>

\* The counter loop exits and the step returns.
TimerCounterDone ==
    /\ timer.at = "counter"
    /\ timer.counter_lapsed < timer_ticksize(mmu.timer.clock)
    /\ timer' = [timer EXCEPT !.at = "idle", !.cycles = 0]
    /\ UNCHANGED <<mmu, ppu, fatal, last, ticksSinceDisable, cpuSteps, ppuElapsed, ppuPowerOff, timerObs, Host>>

\* The steps Timer::step takes once it is entered.
TimerRun ==
    TimerDividerTick \/ TimerDividerDone \/ TimerCounterTick \/ TimerCounterDone

NextTimer == TimerWrite \/ TimerStepEnter \/ TimerRun

SpecTimer == InitInt /\ [][NextTimer]_vars

\* A call of Timer::step keeps running: the emulation loop is single-threaded
\* and nothing preempts the method.
SpecTimerFair == SpecTimer /\ WF_vars(TimerRun)

(***************************************************************************)
(* Claims about the timer.                                                 *)
(***************************************************************************)

\* The tick period of each clock select, in cycles, as the match states it.
TickPeriod(clock) == CPU_FREQ \div ClockDivisor(clock)

\* C4: with the counter enabled, at 0xFF and no cycles accumulated, once the
\* steps have taken exactly one tick period the counter equals modulo and the
\* Timer bit (bit 2) of the request mask is set.
C4_TimerOverflowRequests ==
    (/\ timer.at = "idle"
     /\ mmu.timer.started
     /\ timerObs.counter0 = 255
     /\ timerObs.fed = TickPeriod(mmu.timer.clock))
    => (/\ mmu.timer.counter = mmu.timer.modulo
        /\ is_bit_set(mmu.interrupts.intf, 2))

\* C5: every call of Timer::step returns, whatever the enable bit, the clock
\* select and the cycle count.
C5_TimerStepReturns == (timer.at # "idle") ~> (timer.at = "idle")


(***************************************************************************)
(* guest/systems/ppu.rs: the display controller.  The image buffer is      *)
(* carried for the pixels of its first BufRows lines and BufCols columns,  *)
(* or for the lines a specification names in its initial state.            *)
(***************************************************************************)

\* get_tile_data_address
get_tile_data_address(base_address, tile_number) ==
    IF base_address = 34816
    THEN base_address + (Signed8(tile_number) + 128) * 16
    ELSE base_address + tile_number * 16

\* get_pixel
get_pixel(tile_lower, tile_upper, pixel_num) ==
    2 * ((tile_upper \div Pow2(7 - pixel_num)) % 2)
    + ((tile_lower \div Pow2(7 - pixel_num)) % 2)

\* get_tile_pixel
get_tile_pixel(m, x, y, tilemap_address) ==
    LET tiledata_base_address == IF m.ppu.tile_data_table THEN 32768 ELSE 34816
        tile_number == (y \div 8) * 32 + (x \div 8)
        tile_data_number == rb(m, tilemap_address + tile_number)
        tile_data_address == get_tile_data_address(tiledata_base_address, tile_data_number)
        tile_row_index == tile_data_address + (y % 8) * 2
    IN  get_pixel(rb(m, tile_row_index), rb(m, tile_row_index + 1), x % 8)

\* (palette >> (pixel_value * 2)) & 0x3
PaletteColor(palette, pixel_value) == (palette \div Pow2(pixel_value * 2)) % 4

\* PPU::draw_background_scanline: the pixel value of the background at a
\* column of the current line.
background_pixel(m, col) ==
    get_tile_pixel(m, U8(col + m.ppu.scx), U8(m.ppu.line + m.ppu.scy),
                   IF m.ppu.bg_tilemap THEN 39936 ELSE 38912)

\* PPU::bg_color_zero as draw_background_scanline leaves it: draw_scanline
\* resets the array before every use, so it is a function of the line drawn.
bg_color_zero(m, col) == m.ppu.window_bg_on /\ background_pixel(m, col) = 0

\* PPU::draw_background_scanline
draw_background_scanline(buf, m) ==
    IF ~m.ppu.window_bg_on THEN buf
    ELSE [i \in DOMAIN buf |->
            IF i \div 160 = m.ppu.line
            THEN PaletteColor(m.ppu.background_palette, background_pixel(m, i % 160))
            ELSE buf[i]]

\* PPU::draw_window_scanline
draw_window_scanline(buf, m) ==
    IF ~m.ppu.window_on \/ m.ppu.line - m.ppu.win_y < 0 THEN buf
    ELSE [i \in DOMAIN buf |->
            LET win_x == 0 - (m.ppu.win_x - 7) + (i % 160)
            IN  IF i \div 160 = m.ppu.line /\ win_x >= 0 /\ win_x < 160
                THEN get_tile_pixel(m, win_x, m.ppu.line - m.ppu.win_y,
                                    IF m.ppu.window_tilemap THEN 39936 ELSE 38912)
                ELSE buf[i]]

\* The height of a sprite: `if ppu.sprite_size { 16 } else { 8 }`.
sprite_y_size(m) == IF m.ppu.sprite_size THEN 16 ELSE 8

\* The four bytes of entry s of the sprite table, the positions as the
\* signed numbers the code works with.
SpriteEntry(m, s) ==
    [y_pos |-> rb(m, 65024 + s * 4) - 16,
     x_pos |-> rb(m, 65024 + s * 4 + 1) - 8,
     sprite_number |-> rb(m, 65024 + s * 4 + 2),
     flags |-> rb(m, 65024 + s * 4 + 3)]

\* The negation of the `continue` test of the first loop.
SpriteSelected(m, s) ==
    LET e == SpriteEntry(m, s)
    IN  ~(\/ m.ppu.line < e.y_pos
          \/ m.ppu.line >= e.y_pos + sprite_y_size(m)
          \/ e.x_pos < -7
          \/ e.x_pos >= 160)

\* The first loop of draw_sprites_scanline from entry s on, with the sprites
\* collected so far.
RECURSIVE CollectSprites(_, _, _)
CollectSprites(m, s, collected) ==
    IF s = 40 \/ Len(collected) = 10 THEN collected
    ELSE CollectSprites(m, s + 1,
                        IF SpriteSelected(m, s) THEN Append(collected, s) ELSE collected)

\* sprites_to_draw collected with no limit on its length.
sprites_to_draw_all(m) ==
    LET F[s \in 0 .. 40] ==
            IF s = 0 THEN << >>
            ELSE IF SpriteSelected(m, s - 1) THEN Append(F[s - 1], s - 1) ELSE F[s - 1]
    IN  F[40]

\* sprites_to_draw after the first loop.
sprites_to_draw(m) == CollectSprites(m, 0, << >>)

\* The index `self.bg_color_zero[x_pos as usize]`: a negative x_pos is a
\* huge usize and the index is out of bounds.  The test is reached by the
\* first pixel of the sprite that is on the screen, and every selected
\* sprite has one.
draw_sprite_panic(m, s) ==
    LET e == SpriteEntry(m, s)
    IN  IF m.ppu.window_bg_on /\ is_bit_set(e.flags, 7) /\ e.x_pos < 0
        THEN "index out of bounds" ELSE ""

\* The body of the second loop for sprite s: the pixels of its row on the
\* current line, written over the buffer.
draw_sprite(buf, m, s) ==
    LET e == SpriteEntry(m, s)
        line == m.ppu.line
        palette == IF is_bit_set(e.flags, 4) THEN m.ppu.obj_palette_1 ELSE m.ppu.obj_palette_0
        bg_priority == is_bit_set(e.flags, 7)
        y_flip == is_bit_set(e.flags, 6)
        x_flip == is_bit_set(e.flags, 5)
        sprite_y == IF y_flip THEN sprite_y_size(m) - 1 - (line - e.y_pos)
                    ELSE line - e.y_pos
        sprite_data_address == 32768 + e.sprite_number * 16 + sprite_y * 2
        sprite_data_lower == rb(m, sprite_data_address)
        sprite_data_upper == rb(m, sprite_data_address + 1)
        hidden == m.ppu.window_bg_on /\ bg_priority /\ ~bg_color_zero(m, e.x_pos)
        color(p) == PaletteColor(palette,
                                 get_pixel(sprite_data_lower, sprite_data_upper,
                                           IF x_flip THEN 7 - p ELSE p))
    IN  [i \in DOMAIN buf |->
            LET p == (i % 160) - e.x_pos
            IN  IF i \div 160 = line /\ p >= 0 /\ p < 8 /\ ~hidden
                THEN color(p) ELSE buf[i]]

\* The second loop of draw_sprites_scanline: the sprites of the list from
\* position k down to the first.
RECURSIVE DrawSprites(_, _, _, _)
DrawSprites(buf, m, sprites, k) ==
    IF k = 0 THEN buf
    ELSE DrawSprites(draw_sprite(buf, m, sprites[k]), m, sprites, k - 1)

\* PPU::draw_sprites_scanline: the panic of the first sprite drawn whose
\* priority test panics, "" if none.
draw_sprites_scanline_panic(m) ==
    IF ~m.ppu.sprite_on THEN ""
    ELSE LET sprites == sprites_to_draw(m)
             bad == {k \in 1 .. Len(sprites) : draw_sprite_panic(m, sprites[k]) # ""}
         IN  IF bad = {} THEN "" ELSE "index out of bounds"

\* PPU::draw_sprites_scanline
draw_sprites_scanline(buf, m) ==
    IF ~m.ppu.sprite_on THEN buf
    ELSE LET sprites == sprites_to_draw(m)
         IN  DrawSprites(buf, m, sprites, Len(sprites))

\* PPU::draw_scanline: its panic, "" if it returns.
draw_scanline_panic(m) ==
    IF ~m.ppu.lcd_on THEN "" ELSE draw_sprites_scanline_panic(m)

\* PPU::draw_scanline
draw_scanline(buf, m) ==
    IF ~m.ppu.lcd_on THEN buf
    ELSE draw_sprites_scanline(draw_window_scanline(draw_background_scanline(buf, m), m), m)

\* change_mode with the first arm starting at 1.
change_mode_from_1(modeclock, mode, p) ==
    CASE modeclock >= 1 /\ modeclock <= 80 /\ mode # 2 -> <<2, p.mode2_int_enable>>
      [] modeclock >= 81 /\ modeclock <= 252 /\ mode # 3 -> <<3, FALSE>>
      [] modeclock >= 253 /\ modeclock <= 455 /\ mode # 0 -> <<0, p.mode0_int_enable>>
      [] OTHER -> << >>

\* change_mode with a request on entering mode 3, under the enable of mode 2.
change_mode_3_requests(modeclock, mode, p) ==
    CASE modeclock >= 0 /\ modeclock <= 80 /\ mode # 2 -> <<2, p.mode2_int_enable>>
      [] modeclock >= 81 /\ modeclock <= 252 /\ mode # 3 -> <<3, p.mode2_int_enable>>
      [] modeclock >= 253 /\ modeclock <= 455 /\ mode # 0 -> <<0, p.mode0_int_enable>>
      [] OTHER -> << >>

\* The match on self.modeclock: the next mode and whether to request the LCD
\* status interrupt, << >> for no change.
change_mode(modeclock, mode, p) ==
    CASE modeclock >= 0 /\ modeclock <= 80 /\ mode # 2 -> <<2, p.mode2_int_enable>>
      [] modeclock >= 81 /\ modeclock <= 252 /\ mode # 3 -> <<3, FALSE>>
      [] modeclock >= 253 /\ modeclock <= 455 /\ mode # 0 -> <<0, p.mode0_int_enable>>
      [] OTHER -> << >>

\* EntersVBlank without the test of the mode.
EntersVBlankAnyMode(line, mode) == line >= 144

\* The VBlank line test: `mmu.ppu.line >= 144 && mode != 1`.
EntersVBlank(line, mode) == line >= 144 /\ mode # 1

\* The first block of PPU::step: the pending clear of the screen.
ClearScreen(self, m) ==
    IF m.ppu.clear_screen
    THEN [self |-> [self EXCEPT !.image_buffer = ClearedBuffer, !.modeclock = 0],
          mmu |-> [m EXCEPT !.ppu.line = 0, !.ppu.mode = 0, !.ppu.clear_screen = FALSE]]
    ELSE [self |-> self, mmu |-> m]

\* The `if self.modeclock >= 456` block of PPU::step, `mode` being the mode
\* read at the start of the step.
AdvanceLine(self, m, mode) ==
    IF self.modeclock >= 456
    THEN LET m1 == check_lyc_interrupt([m EXCEPT !.ppu.line = (@ + 1) % 154])
             m2 == IF EntersVBlank(m1.ppu.line, mode)
                   THEN [m1 EXCEPT !.ppu.mode = 1,
                                   !.interrupts.intf =
                                       BitOr(IF m1.ppu.mode1_int_enable
                                             THEN BitOr(@, 2) ELSE @, 1)]
                   ELSE m1
         IN  [self |-> [self EXCEPT !.modeclock = @ - 456], mmu |-> m2]
    ELSE [self |-> self, mmu |-> m]

\* ChangeMode without the test of the line: the mode changes on the VBlank
\* lines as well.
ChangeModeAnyLine(self, m, mode) ==
    LET change == change_mode(self.modeclock, mode, m.ppu)
        m1 == [m EXCEPT !.ppu.mode = change[1],
                        !.interrupts.intf = IF change[2] THEN BitOr(@, 2) ELSE @]
    IN  IF change # << >>
        THEN [self |-> IF change[1] = 0
                       THEN [self EXCEPT !.image_buffer = draw_scanline(@, m1)]
                       ELSE self,
              mmu |-> m1]
        ELSE [self |-> self, mmu |-> m]

\* The `if mmu.ppu.line < 144` block of PPU::step.
ChangeMode(self, m, mode) ==
    LET change == change_mode(self.modeclock, mode, m.ppu)
        m1 == [m EXCEPT !.ppu.mode = change[1],
                        !.interrupts.intf = IF change[2] THEN BitOr(@, 2) ELSE @]
    IN  IF m.ppu.line < 144 /\ change # << >>
        THEN [self |-> IF change[1] = 0
                       THEN [self EXCEPT !.image_buffer = draw_scanline(@, m1)]
                       ELSE self,
              mmu |-> m1]
        ELSE [self |-> self, mmu |-> m]

\* PPU::step: the PPU and the MMU it leaves.
ppu_step(self, m, cycles) ==
    LET c == ClearScreen(self, m)
        mode == c.mmu.ppu.mode
        a == AdvanceLine([c.self EXCEPT !.modeclock = @ + cycles], c.mmu, mode)
    IN  ChangeMode(a.self, a.mmu, mode)

\* PPU::step: the panic of the scanline it draws, "" if it returns.
ppu_step_panic(self, m, cycles) ==
    LET c == ClearScreen(self, m)
        mode == c.mmu.ppu.mode
        a == AdvanceLine([c.self EXCEPT !.modeclock = @ + cycles], c.mmu, mode)
        change == change_mode(a.self.modeclock, mode, a.mmu.ppu)
    IN  IF a.mmu.ppu.line < 144 /\ change # << >> /\ change[1] = 0
        THEN draw_scanline_panic([a.mmu EXCEPT !.ppu.mode = 0])
        ELSE ""

\* Cycles of one frame: 154 lines of 456 cycles.
FrameCycles == 154 * 456

\* The values the guest writes to LCDC (0xFF40): the boot value 0x91 and the
\* same bits with the display off, 0x11.
LcdcValues == {145, 17}

\* The value the guest writes to BGP (0xFF47), 0x1B: colour 0 is shade 3.
BgpValues == {27}

PpuStep ==
    /\ Running
    /\ \E cycles \in CycleSet :
          LET r == ppu_step(ppu, mmu, cycles)
          IN  /\ ppu' = r.self
              /\ mmu' = r.mmu
              /\ ppuElapsed' = IF ppuPowerOff = "written" THEN cycles
                               ELSE (ppuElapsed + cycles) % FrameCycles
    /\ ppuPowerOff' = IF ppuPowerOff = "written" THEN "stepped" ELSE "no"
    /\ UNCHANGED <<timer, fatal, last, ticksSinceDisable, cpuSteps, timerObs, Host>>

\* Whether a write of v to LCDC turns the display from on to off.
TurnsDisplayOff(v) == is_bit_set(PpuReadLcdc(mmu.ppu), 7) /\ ~is_bit_set(v, 7)

\* A guest write of v to LCDC.
WriteLcdc(v) ==
    /\ Running
    /\ mmu' = wb(mmu, 65344, v)
    /\ ppuPowerOff' = IF TurnsDisplayOff(v) THEN "written" ELSE ppuPowerOff
    /\ UNCHANGED <<timer, ppu, fatal, last, ticksSinceDisable, cpuSteps, ppuElapsed, timerObs, Host>>

\* The guest turns the display on or off.
PpuWriteLcdcRegister == \E v \in LcdcValues : WriteLcdc(v)

\* The guest turns the display off.
PpuPowerOff == WriteLcdc(17)

\* A guest write to BGP.
PpuWriteBgp ==
    /\ Running
    /\ \E v \in BgpValues : mmu' = wb(mmu, 65351, v)
    /\ UNCHANGED <<timer, ppu, fatal, last, ticksSinceDisable, cpuSteps, ppuElapsed,
                   ppuPowerOff, timerObs, Host>>

\* The guest clears the request mask (a write of 0 to 0xFF0F).
PpuClearIF ==
    /\ Running
    /\ mmu' = wb(mmu, 65295, 0)
    /\ UNCHANGED <<timer, ppu, fatal, last, ticksSinceDisable, cpuSteps, ppuElapsed,
                   ppuPowerOff, timerObs, Host>>

NextPpu == PpuStep \/ PpuWriteLcdcRegister \/ PpuClearIF

\* The display controller stepped by the emulator's loop while the guest
\* writes LCDC and acknowledges requests.
SpecPpu == InitInt /\ [][NextPpu]_vars

NextPpuDraw == PpuStep \/ PpuPowerOff \/ PpuWriteBgp

\* The display controller stepped while the guest writes the background
\* palette, so that drawn scanlines leave non-zero bytes in the image buffer,
\* and turns the display off.
SpecPpuDraw == InitInt /\ [][NextPpuDraw]_vars

\* The display is on and no power-off is waiting for its step.
DisplayRunning == mmu.ppu.lcd_on /\ ppuPowerOff # "written"

VBlankRequested(m) == is_bit_set(m.interrupts.intf, 0)

\* C6: with the display on, from line 0 and cycle counter 0, once the steps
\* fed (each of at most 4 * MaxMCycles cycles) total exactly 456 cycles the
\* line is 1 and the mode is 2.
C6_LineAfter456 ==
    (DisplayRunning /\ ppuElapsed = 456) => (mmu.ppu.line = 1 /\ mmu.ppu.mode = 2)

C6_Witness ==
    /\ DisplayRunning
    /\ ppuElapsed = 456
    /\ ppu.modeclock = 0
    /\ mmu.ppu.line = 1
    /\ mmu.ppu.mode = 2

\* C7: a step sets the V-Blank request bit (bit 0) exactly when it takes the
\* line from 143 to 144, the mode becomes 1 in that same step, and no other
\* step sets the bit.
C7_VBlankOncePerFrame ==
    [][PpuStep =>
         LET enters == mmu.ppu.line = 143 /\ mmu'.ppu.line = 144
         IN  /\ enters => (VBlankRequested(mmu') /\ mmu'.ppu.mode = 1)
             /\ (~VBlankRequested(mmu) /\ VBlankRequested(mmu')) => enters]_vars

C7_Witness ==
    /\ mmu.ppu.line = 144
    /\ mmu.ppu.mode = 1
    /\ VBlankRequested(mmu)
    /\ ppuElapsed >= 144 * 456
    /\ ppuElapsed < 144 * 456 + 4 * MaxMCycles

\* C8: after every step on a visible line with the display on, c being the
\* cycles since the start of the line, the mode is 2 iff c < 80, 3 iff
\* 80 <= c < 252 and 0 iff 252 <= c < 456.
C8_ModeByLineCycle ==
    (DisplayRunning /\ ppuElapsed > 0 /\ mmu.ppu.line < 144) =>
        LET c == ppuElapsed % 456
        IN  /\ (mmu.ppu.mode = 2) <=> (c < 80)
            /\ (mmu.ppu.mode = 3) <=> (c >= 80 /\ c < 252)
            /\ (mmu.ppu.mode = 0) <=> (c >= 252 /\ c < 456)

\* C9: a write to LCDC that turns the display from on to off leaves line and
\* mode 0 at once, and the next step leaves every byte of the image buffer 0
\* and the cycle counter at that step's cycles alone (ppuElapsed restarts
\* with them), whatever mode, line and cycle counter were before.
C9_PowerOffClears ==
    /\ ppuPowerOff = "written" => (mmu.ppu.line = 0 /\ mmu.ppu.mode = 0)
    /\ ppuPowerOff = "stepped" =>
          /\ \A i \in DOMAIN ppu.image_buffer : ppu.image_buffer[i] = 0
          /\ ppu.modeclock = ppuElapsed
          /\ ppu.modeclock \in CycleSet

\* The write has acted on a display that had drawn and counted cycles, and
\* the step that clears is next.
C9_Witness ==
    /\ ppuPowerOff = "written"
    /\ ~mmu.ppu.lcd_on
    /\ mmu.ppu.line = 0
    /\ mmu.ppu.mode = 0
    /\ ppu.modeclock > 0
    /\ ppuElapsed >= 456
    /\ \E i \in DOMAIN ppu.image_buffer : ppu.image_buffer[i] # 0

\* C10: a step taken while the power bit is off leaves mode and line at 0
\* and requests neither the V-Blank (bit 0) nor the LCD status (bit 1)
\* interrupt.
C10_PoweredOffStepIdle ==
    [][(PpuStep /\ ~mmu.ppu.lcd_on) =>
          /\ mmu'.ppu.line = 0
          /\ mmu'.ppu.mode = 0
          /\ \A b \in {0, 1} : is_bit_set(mmu'.interrupts.intf, b)
                                  => is_bit_set(mmu.interrupts.intf, b)]_vars

(***************************************************************************)
(* The cartridge seen through MMU::rb and MMU::wb: a cartridge is loaded,  *)
(* then the guest reads 0x0000..0x7FFF and writes 0x0000..0x7FFF and       *)
(* 0xA000..0xBFFF in any order.                                            *)
(***************************************************************************)

\* The largest image, in banks of 16 KiB; the smallest has two.
MaxRomBanks == 4

\* The controller types of the headers loaded: non-banked and bank-switched.
CartHeaders == {0, 1, 3}

ImageLengths == {2 * BankSize, MaxRomBanks * BankSize}

\* Addresses read: both ends of the fixed and of the banked window, and the
\* header byte.
CartReadAddresses == {0, 327, 16383, 16384, 16385, 32767}

\* Addresses written: the RAM enable, bank select and upper control ranges
\* and the cartridge RAM.
CartWriteAddresses == {0, 8191, 8192, 16383, 16384, 32767, 40960, 49151}

\* Bytes written: the bank numbers 0..3 and bytes with bits above bit 4.
CartValues == {0, 1, 2, 3, 31, 32, 35, 224, 255}

\* The variables the address space does not own.
NotMmu == <<timer, ppu, ticksSinceDisable, cpuSteps, ppuElapsed, ppuPowerOff, timerObs, Host>>

\* A read or write of one byte, the value it returned (None for a write or a
\* panic) and the byte of the latest write to 0x2000..0x3FFF (None if none).
Accessed(op, address, value, ret, bankv) ==
    [op |-> op, address |-> address, value |-> value, ret |-> ret, bankv |-> bankv]

BankWritten == IF "bankv" \in DOMAIN last THEN last.bankv ELSE None

\* readByte(address)
ReadByte(address) ==
    /\ Running
    /\ fatal' = rb_panic(mmu, address)
    /\ last' = Accessed("rb", address, None,
                        IF fatal' = "" THEN rb(mmu, address) ELSE None, BankWritten)
    /\ UNCHANGED mmu
    /\ UNCHANGED NotMmu

\* writeByte(address, value)
WriteByte(address, value) ==
    /\ Running
    /\ fatal' = wb_panic(mmu, address, value)
    /\ mmu' = IF fatal' = "" THEN wb(mmu, address, value) ELSE mmu
    /\ last' = Accessed("wb", address, value, None,
                        IF address >= 8192 /\ address <= 16383 THEN value
                        ELSE BankWritten)
    /\ UNCHANGED NotMmu

CartRead == \E address \in CartReadAddresses : ReadByte(address)

CartWrite == \E address \in CartWriteAddresses, value \in CartValues : WriteByte(address, value)

\* Cartridge::new on an image, then MMU::new around it.
InitCart ==
    /\ \E header \in CartHeaders, len \in ImageLengths :
          mmu = MMUNewWith(CartridgeNew(header, len))
    /\ timer = TimerNew
    /\ ppu = PPUNew
    /\ fatal = ""
    /\ last = NoCall
    /\ ticksSinceDisable = -1
    /\ cpuSteps = 0
    /\ ppuElapsed = 0
    /\ ppuPowerOff = "no"
    /\ timerObs = [fed |-> 0, counter0 |-> 0]
    /\ apu = APUNew
    /\ audio = AudioNew
    /\ frame = FrameNew

NextCart == CartRead \/ CartWrite

SpecCart == InitCart /\ [][NextCart]_vars

\* The cartridge loaded has a bank-switched controller (header 0x01..0x03).
BankSwitched == mmu.cartridge.header \in 1 .. 3

\* The last access was a read of the banked window that returned.
BankedReadReturned ==
    /\ last.op = "rb"
    /\ last.address >= 16384 /\ last.address <= 32767
    /\ fatal = ""

\* C11: with the bank-switched controller, after a write to 0x2000..0x3FFF
\* of a value whose low five bits are zero, bank 1 is selected: a following
\* read of 0x4000 + k returns image[0x4000 + k].
C11_BankZeroClamps ==
    (BankSwitched /\ last.op = "rb" /\ last.address >= 16384 /\ last.address <= 32767
       /\ BankWritten # None /\ BankWritten % 32 = 0)
    => (fatal = "" /\ last.ret = CartData(mmu.cartridge, last.address))

\* C12: with the bank-switched controller, after a write of v to
\* 0x2000..0x3FFF with b = v & 0x1F nonzero, a read of a in 0x4000..0x7FFF
\* returns image[b * 0x4000 + (a - 0x4000)] (for a bank b the image holds),
\* and a read of a in 0x0000..0x3FFF returns image[a] whatever was selected.
C12_BankedRead ==
    (BankSwitched /\ last.op = "rb") =>
        /\ (last.address <= 16383) =>
              (fatal = "" /\ last.ret = CartData(mmu.cartridge, last.address))
        /\ (last.address >= 16384 /\ BankWritten # None /\ BankWritten % 32 # 0
              /\ (BankWritten % 32) * 16384 + (last.address - 16384) < mmu.cartridge.len) =>
              /\ fatal = ""
              /\ last.ret = CartData(mmu.cartridge,
                                     (BankWritten % 32) * 16384 + (last.address - 16384))

\* Bank 3 was selected by a byte with bits above bit 4 and the second byte of
\* the banked window read from it.
C12_Witness ==
    /\ BankSwitched
    /\ BankedReadReturned
    /\ last.address = 16385
    /\ BankWritten = 35
    /\ mmu.cartridge.len = 4 * BankSize
    /\ last.ret = ImageByte(3 * 16384 + 1)
    /\ last.ret # ImageByte(16385)

\* C13: with a bank-switched cartridge loaded, no read of 0x0000..0x7FFF and
\* no write to 0x0000..0x7FFF or 0xA000..0xBFFF ends in a fatal error.
C13_CartridgeAccessTotal == BankSwitched => fatal = ""

\* C14: with a cartridge whose header byte 0x147 is 0x00, a read of a in
\* 0x0000..0x7FFF returns image[a], before and after any writes to the
\* cartridge.
C14_NonBankedReadsImage ==
    (mmu.cartridge.header = 0) =>
        /\ fatal = ""
        /\ last.op = "rb" => last.ret = CartData(mmu.cartridge, last.address)

\* A read of 0x4000 that follows a write of 2 to 0x2000.
C14_Witness ==
    /\ mmu.cartridge.header = 0
    /\ BankedReadReturned
    /\ last.address = 16384
    /\ BankWritten = 2
    /\ last.ret = ImageByte(16384)

(***************************************************************************)
(* The address space under guest reads and writes of work memory, its      *)
(* echo and the I/O registers, and writes of the DMA trigger.              *)
(***************************************************************************)

\* Work memory 0xC000..0xDFFF and its echo 0xE000..0xFDFF.
WorkBase == 49152
EchoBase == 57344

\* The offsets k of 0..0x1DFF accessed: both ends.
EchoOffsets == {0, 7679}

\* The I/O register range 0xFF00..0xFF7F.
IoAddresses == 65280 .. 65407

\* Bytes the guest writes to memory.
MemValues == {0, 90}

\* The pages written to the DMA trigger: cartridge ROM, video memory,
\* cartridge RAM, work memory, its echo, the sprite table itself and the
\* I/O page.
DmaSources == {0, 128, 160, 192, 224, 254, 255}

MemRead ==
    \E address \in {WorkBase + k : k \in EchoOffsets} \cup {EchoBase + k : k \in EchoOffsets}
                   \cup IoAddresses :
        ReadByte(address)

MemWrite ==
    \E address \in {WorkBase + k : k \in EchoOffsets} \cup {EchoBase + k : k \in EchoOffsets},
       value \in MemValues :
        WriteByte(address, value)

\* A write of the DMA trigger 0xFF46.
MemDma == \E value \in DmaSources : WriteByte(65350, value)

NextMem == MemRead \/ MemWrite \/ MemDma

SpecMem == InitInt /\ [][NextMem]_vars

\* The address that mirrors an address of work memory or of its echo.
Mirror(address) ==
    IF address >= EchoBase THEN address - 8192 ELSE address + 8192

\* C15: readByte(0xE000 + k) equals readByte(0xC000 + k) for every offset k
\* in every reachable state, and a writeByte to either address completes and
\* is observed by a later read of the other.
C15_EchoMirrorsWork ==
    /\ \A k \in EchoOffsets : rb(mmu, EchoBase + k) = rb(mmu, WorkBase + k)
    /\ (last.op = "wb" /\ last.address >= WorkBase /\ last.address < EchoBase + 7680) =>
          /\ fatal = ""
          /\ rb(mmu, Mirror(last.address)) = last.value
          /\ rb(mmu, last.address) = last.value

\* C16: readByte completes with a value for every address of the I/O range
\* 0xFF00..0xFF7F, the value a repeated read returns.
C16_IoReadsTotal ==
    (last.op = "rb" /\ last.address \in IoAddresses) =>
        /\ fatal = ""
        /\ last.ret \in 0 .. 255
        /\ rb(mmu, last.address) = last.ret

\* C20: a write of any byte v to 0xFF46 completes, leaves sprite-table byte
\* n equal to the byte readByte(v * 256 + n) returned before the write for
\* every n in 0..159, and changes nothing but the sprite table.
C20_OamDmaCopies ==
    [][(last'.op = "wb" /\ last'.address = 65350) =>
          /\ fatal' = ""
          /\ \A n \in 0 .. 159 : ByteAt(mmu'.oam, n) = rb(mmu, last'.value * 256 + n)
          /\ [mmu' EXCEPT !.oam = mmu.oam] = mmu]_vars

\* C17: in every reachable state the interrupt request mask has bits 5..7
\* clear, so try_interrupt never ends in its invalid-mask panic and never
\* returns an index of 5 or more.
C17_RequestMaskFiveBits ==
    /\ mmu.interrupts.intf <= 31
    /\ fatal = ""
    /\ last.op = "try_interrupt" => last.ret < 5

\* C18: in every reachable state the four low bits of the flag register F
\* are zero, the pop of an arbitrary word into AF (opcode 0xF1) included.
C18_FlagLowNibbleZero == mmu.f % 16 = 0

(***************************************************************************)
(* The stack: words pushed and popped at a stack pointer the guest loaded. *)
(***************************************************************************)

\* The pushes outstanding at any time.
MaxPushes == 2

\* Stack pointers the guest loads: the lowest and the highest whose four
\* bytes below lie in video memory, work memory, the sprite table and high
\* RAM, the value MMU::new leaves, and two whose bytes below lie in the
\* cartridge ROM and in the echo of work memory.
StackPointers ==
    {32772, 40960, 49156, 57344, 65028, 65184, 65412, 65534, 65535, 32770, 57346}

\* Words the guest pushes.
StackWords == {0, 4660, 43981, 65535}

\* An address MMU::wb stores to and MMU::rb reads from the same array: video
\* memory, work memory, the sprite table or high RAM.
Backed(address) ==
    \/ address >= 32768 /\ address <= 40959
    \/ address >= 49152 /\ address <= 57343
    \/ address >= 65024 /\ address <= 65183
    \/ address >= 65408 /\ address <= 65534

\* The bytes below a stack pointer that MaxPushes outstanding pushes use
\* (four for two pushes) are backed.
StackBacked(sp) == \A i \in 1 .. 2 * MaxPushes : Backed(U16(sp - i + 65536))

\* A stack operation: the word it returned (None for a push), the stack
\* pointer the guest loaded, the words pushed and not yet popped (the oldest
\* first) and the word on top of them before a pop (None for a push).
Stacked(op, ret, sp0, pushed, expect) ==
    [op |-> op, ret |-> ret, sp0 |-> sp0, pushed |-> pushed, expect |-> expect]

\* LD SP,d16 (opcode 0x31), once after construction.
StackLoadSp ==
    \E w \in StackPointers :
        /\ Running
        /\ last = NoCall
        /\ mmu' = [mmu EXCEPT !.sp = w]
        /\ last' = Stacked("ld_sp", None, w, << >>, None)
        /\ UNCHANGED fatal
        /\ UNCHANGED NotMmu

\* MMU::push_stack of a word.
StackPush ==
    \E w \in StackWords :
        /\ Running
        /\ last.op \in {"ld_sp", "push_stack", "pop_stack"}
        /\ Len(last.pushed) < MaxPushes
        /\ fatal' = ww_panic(mmu, U16(mmu.sp - 2 + 65536), w)
        /\ mmu' = IF fatal' = "" THEN push_stack(mmu, w) ELSE mmu
        /\ last' = Stacked("push_stack", None, last.sp0, Append(last.pushed, w), None)
        /\ UNCHANGED NotMmu

\* MMU::pop_stack of a word pushed before.
StackPop ==
    /\ Running
    /\ last.op \in {"push_stack", "pop_stack"}
    /\ Len(last.pushed) > 0
    /\ fatal' = rw_panic(mmu, mmu.sp)
    /\ mmu' = IF fatal' = "" THEN pop_stack(mmu).st ELSE mmu
    /\ last' = Stacked("pop_stack",
                       IF fatal' = "" THEN pop_stack(mmu).ret ELSE None,
                       last.sp0,
                       SubSeq(last.pushed, 1, Len(last.pushed) - 1),
                       last.pushed[Len(last.pushed)])
    /\ UNCHANGED NotMmu

NextStack == StackLoadSp \/ StackPush \/ StackPop

SpecStack == InitInt /\ [][NextStack]_vars

\* C19: at every stack pointer whose four bytes below are backed, each push
\* completes and lowers the stack pointer by 2, each pop completes and
\* returns the word pushed last and not yet popped (so two pops after two
\* pushes return the second word, then the first), and the stack pointer is
\* the loaded one whenever every pushed word was popped.
C19_StackRoundTrip ==
    (last.op \in {"push_stack", "pop_stack"} /\ StackBacked(last.sp0)) =>
        /\ fatal = ""
        /\ mmu.sp = last.sp0 - 2 * Len(last.pushed)
        /\ last.op = "pop_stack" => last.ret = last.expect

\* The first pop after the pushes of 0x1234 and 0xABCD at the top of work
\* memory returned 0xABCD.
C19_Witness ==
    /\ last.op = "pop_stack"
    /\ last.sp0 = 57344
    /\ last.pushed = <<4660>>
    /\ last.ret = 43981
    /\ mmu.sp = 57342

(***************************************************************************)
(* The cost of conditional control transfers.                              *)
(***************************************************************************)

\* CPU steps of one run of conditional opcodes.
MaxBranchSteps == 2

\* The conditional control-transfer opcodes: JR, RET, JP and CALL on NZ, Z,
\* NC and C.
ConditionalOpcodes ==
    {32, 40, 48, 56, 192, 200, 208, 216, 194, 202, 210, 218, 196, 204, 212, 220}

\* The flag register with the zero and carry flags clear and set.
FlagValues == {0, 16, 128, 144}

\* The condition a conditional opcode names, held in a register state.
ConditionHolds(m, opcode) ==
    CASE opcode \in {32, 192, 194, 196} -> ~flag_z(m)
      [] opcode \in {40, 200, 202, 204} -> flag_z(m)
      [] opcode \in {48, 208, 210, 212} -> ~flag_c(m)
      [] opcode \in {56, 216, 218, 220} -> flag_c(m)

\* The registers with the zero and carry flags inverted.
FlagsInverted(m) ==
    [m EXCEPT !.f = (m.f + 128 + (IF flag_c(m) THEN 240 ELSE 16)) % 256]

\* A CPU step on a conditional opcode: whether its condition held, and the
\* cost and the panic of the same step made with the condition inverted.
Branched(r, opcode, taken, o) ==
    [op |-> "step", ret |-> r.ret, irq |-> r.irq, opcode |-> opcode,
     taken |-> taken, other |-> o.ret, otherpanic |-> o.panic]

BranchStep ==
    /\ Running
    /\ cpuSteps < MaxBranchSteps
    /\ \E opcode \in ConditionalOpcodes :
          LET r == step(mmu, opcode)
              o == step(FlagsInverted(mmu), opcode)
          IN  /\ mmu' = r.st
              /\ last' = Branched(r, opcode, ConditionHolds(mmu, opcode), o)
              /\ fatal' = r.panic
    /\ cpuSteps' = cpuSteps + 1
    /\ UNCHANGED <<timer, ppu, ticksSinceDisable, ppuElapsed, ppuPowerOff, timerObs, Host>>

\* MMU::new, then flags an arithmetic opcode left.
InitBranch ==
    /\ \E f \in FlagValues : mmu = [MMUNew EXCEPT !.f = f]
    /\ timer = TimerNew
    /\ ppu = PPUNew
    /\ fatal = ""
    /\ last = NoCall
    /\ ticksSinceDisable = -1
    /\ cpuSteps = 0
    /\ ppuElapsed = 0
    /\ ppuPowerOff = "no"
    /\ timerObs = [fed |-> 0, counter0 |-> 0]
    /\ apu = APUNew
    /\ audio = AudioNew
    /\ frame = FrameNew

NextBranch == BranchStep

SpecBranch == InitBranch /\ [][NextBranch]_vars

\* C21: a step on a conditional control-transfer opcode returns a cost, and
\* the cost of the step whose condition holds is at least the cost the same
\* opcode returns when its condition does not hold.
C21_TakenCostsNoLess ==
    (last.op = "step" /\ "taken" \in DOMAIN last) =>
        /\ fatal = ""
        /\ last.otherpanic = ""
        /\ last.taken => last.ret >= last.other
        /\ ~last.taken => last.ret <= last.other

\* C22: while the timer-enable bit is clear, Timer::step leaves the
\* programmable counter at the value the guest wrote, for any number of
\* steps, any cycle counts and any clock select; the step returns having
\* accumulated nothing for the counter, and only the divider has advanced,
\* once per DIVIDER_TICKSIZE cycles.
C22_StoppedCounterHolds ==
    ~mmu.timer.started =>
        /\ mmu.timer.counter = timerObs.counter0
        /\ timer.counter_lapsed = 0
        /\ timer.at \in {"idle", "divider"}
        /\ timer.at = "idle" =>
              mmu.timer.divider = (timerObs.fed \div DIVIDER_TICKSIZE) % 256

\* Steps that took 16408 cycles with the enable bit clear and clock select 1
\* returned with the counter at the 0xFF written and the divider at 1.
C22_Witness ==
    /\ ~mmu.timer.started
    /\ mmu.timer.clock = 1
    /\ timer.at = "idle"
    /\ timerObs.fed = 16408
    /\ timerObs.counter0 = 255
    /\ mmu.timer.counter = 255
    /\ mmu.timer.divider = 1

\* The timer registers after k increments of the counter.
RECURSIVE Ticked(_, _)
Ticked(t, k) == IF k = 0 THEN t ELSE Ticked(CounterTick(t), k - 1)

\* C23: with the counter enabled and nothing accumulated, once the steps
\* taken have returned having fed N cycles the counter has been incremented
\* floor(N / period) times, whatever the split of N; and while N is less than
\* one period the counter, the modulo and the request mask are unchanged.
C23_CounterTicksPerPeriod ==
    mmu.timer.started =>
        /\ timer.at = "idle" =>
              mmu.timer.counter =
                  Ticked([mmu.timer EXCEPT !.counter = timerObs.counter0],
                         timerObs.fed \div TickPeriod(mmu.timer.clock)).counter
        /\ timerObs.fed < TickPeriod(mmu.timer.clock) =>
              /\ mmu.timer.counter = timerObs.counter0
              /\ mmu.interrupts.intf = 0

(***************************************************************************)
(* The divider: Timer::step with the counter stopped, and writes to the    *)
(* divider register, over a whole wrap of the divider.                     *)
(***************************************************************************)

\* The cycle count of each step.
DividerCycles == {128}

\* The writes the guest makes: the divider register with two values, and the
\* counter and the (stopped) clock select.
DividerWrites == {<<65284, 0>>, <<65284, 255>>, <<65285, 255>>, <<65287, 3>>}

\* A write to a timer register or an entry to Timer::step: the timer
\* registers, the cycles lapsed for the divider before it, and the byte
\* written or the cycles taken.
DividerCalled(op, address, value) ==
    [op |-> op, address |-> address, value |-> value,
     timer0 |-> mmu.timer, lapsed0 |-> timer.divider_lapsed]

DividerWrite ==
    /\ Running
    /\ timer.at = "idle"
    /\ \E w \in DividerWrites :
          /\ mmu' = wb(mmu, w[1], w[2])
          /\ mmu' # mmu \/ w[1] = 65284
          /\ last' = DividerCalled("wb", w[1], w[2])
    /\ UNCHANGED <<timer, ppu, fatal, ticksSinceDisable, cpuSteps, ppuElapsed, ppuPowerOff, timerObs, Host>>

DividerStepEnter ==
    /\ Running
    /\ timer.at = "idle"
    /\ \E cycles \in DividerCycles :
          /\ timer' = [timer EXCEPT !.divider_lapsed = U16(@ + cycles),
                                    !.at = "divider", !.cycles = cycles]
          /\ last' = DividerCalled("timer_step", None, cycles)
    /\ UNCHANGED <<mmu, ppu, fatal, ticksSinceDisable, cpuSteps, ppuElapsed, ppuPowerOff, timerObs, Host>>

NextDivider ==
    DividerWrite \/ DividerStepEnter \/ TimerDividerTick \/ TimerDividerDone

SpecDivider == InitInt /\ [][NextDivider]_vars

\* C24: a write of any byte to 0xFF04 leaves the divider 0 and the counter,
\* the modulo, the enable bit and the clock select as they were; a returned
\* Timer::step has incremented the divider once per DIVIDER_TICKSIZE cycles
\* accumulated, wrapping from 0xFF to 0x00, and changed no other register.
C24_DividerResetAndPeriod ==
    /\ (last.op = "wb" /\ last.address = 65284) =>
          mmu.timer = [last.timer0 EXCEPT !.divider = 0]
    /\ (last.op = "timer_step" /\ timer.at = "idle") =>
          /\ mmu.timer =
                [last.timer0 EXCEPT !.divider =
                    (@ + (last.lapsed0 + last.value) \div DIVIDER_TICKSIZE) % 256]
          /\ timer.divider_lapsed = (last.lapsed0 + last.value) % DIVIDER_TICKSIZE

\* A step returned having wrapped the divider from 0xFF to 0x00, with the
\* counter at 0xFF and clock select 3.
C24_Witness ==
    /\ last.op = "timer_step"
    /\ timer.at = "idle"
    /\ last.timer0.divider = 255
    /\ mmu.timer.divider = 0
    /\ mmu.timer.counter = 255
    /\ mmu.timer.clock = 3

\* C25: a try_interrupt call made with master-enable false and the CPU not
\* halted returns none and leaves the request mask, the enable mask and the
\* halted flag (the whole controller) as they were, for every value of the
\* two masks.
C25_DisabledTryInterruptIdle ==
    [][(/\ last'.op = "try_interrupt"
        /\ ~mmu.interrupts.ime
        /\ ~mmu.interrupts.is_halted)
       => (/\ last'.ret = None
           /\ mmu'.interrupts = mmu.interrupts
           /\ fatal' = "")]_vars

\* A call returned none with master-enable false while an enabled interrupt
\* was requested and a bit above bit 4 was set in the request mask.
C25_Witness ==
    /\ last.op = "try_interrupt"
    /\ last.ret = None
    /\ ~mmu.interrupts.ime
    /\ ~mmu.interrupts.is_halted
    /\ mmu.interrupts.inte = 5
    /\ mmu.interrupts.intf = 33

(***************************************************************************)
(* CPU::step on a halted CPU.  No operation of the source sets is_halted   *)
(* (opcode 0x76 has no arm in the match): the step is applied to the       *)
(* controller states a caller of the public field can hand it.             *)
(***************************************************************************)

\* Interrupts with the halted flag set, either master-enable value and a
\* delayed enable or disable pending or not.
HaltedControllers ==
    {[InterruptsNew EXCEPT !.is_halted = TRUE, !.ime = e,
                           !.disable_ime_counter = d, !.enable_ime_counter = c] :
        e \in BOOLEAN, d \in 0 .. 2, c \in 0 .. 2}

InitHalt ==
    /\ \E i \in HaltedControllers : mmu = [MMUNew EXCEPT !.interrupts = i]
    /\ timer = TimerNew
    /\ ppu = PPUNew
    /\ fatal = ""
    /\ last = NoCall
    /\ ticksSinceDisable = -1
    /\ cpuSteps = 0
    /\ ppuElapsed = 0
    /\ ppuPowerOff = "no"
    /\ timerObs = [fed |-> 0, counter0 |-> 0]
    /\ apu = APUNew
    /\ audio = AudioNew
    /\ frame = FrameNew

NextHalt == CpuStep \/ CpuWriteIF \/ CpuWriteIE

SpecHalt == InitHalt /\ [][NextHalt]_vars

\* C26: a CPU step on a halted CPU with no enabled interrupt requested
\* returns 1, fetches no opcode and leaves every register, the program
\* counter, the stack pointer and every memory byte as they were: all it may
\* change is the master-enable flag and its two delay counters.
C26_HaltedStepIdle ==
    [][(/\ last'.op = "step"
        /\ mmu.interrupts.is_halted
        /\ BitAnd(mmu.interrupts.inte, mmu.interrupts.intf) = 0)
       => (/\ last'.ret = 1
           /\ last'.opcode = NoOpcode
           /\ last'.irq = None
           /\ fatal' = ""
           /\ [mmu' EXCEPT !.interrupts =
                  [@ EXCEPT !.ime = mmu.interrupts.ime,
                            !.disable_ime_counter = mmu.interrupts.disable_ime_counter,
                            !.enable_ime_counter = mmu.interrupts.enable_ime_counter]]
              = mmu)]_vars

\* Two steps on a halted CPU with no interrupt enabled and three requested
\* returned 1 each, the second with the
\* master-enable flag cleared by the tick of a pending disable.
C26_Witness ==
    /\ last.op = "step"
    /\ last.ret = 1
    /\ last.opcode = NoOpcode
    /\ cpuSteps = 2
    /\ mmu.interrupts.is_halted
    /\ ~mmu.interrupts.ime
    /\ mmu.interrupts.disable_ime_counter = 0
    /\ mmu.interrupts.inte = 0
    /\ mmu.interrupts.intf = 21
    /\ mmu.pc = 256

(***************************************************************************)
(* guest/systems/alu.rs: add and sub on the accumulator.                   *)
(***************************************************************************)

\* MMU::set_flag_z/n/h/c (create_flag!): bit mask of f set or cleared.
set_flag(m, mask, value) ==
    [m EXCEPT !.f = IF value THEN (IF is_bit_set(@, mask) THEN @ ELSE @ + Pow2(mask))
                    ELSE (IF is_bit_set(@, mask) THEN @ - Pow2(mask) ELSE @)]

\* MMU::flag_n and MMU::flag_h: bits 6 and 5 of f.
flag_n(m) == is_bit_set(m.f, 6)
flag_h(m) == is_bit_set(m.f, 5)

\* alu::add
add(m, value) ==
    LET new_a == U8(m.a + value)
        overflow == m.a + value > 255
        m1 == set_flag(m, 7, new_a = 0)
        m2 == set_flag(m1, 6, FALSE)
        m3 == set_flag(m2, 5, (m.a % 16) + (value % 16) > 15)
        m4 == set_flag(m3, 4, overflow)
    IN  [m4 EXCEPT !.a = new_a]

\* A sub that sets the carry when the operand equals the accumulator too.
sub_carry_on_equal(m, value) ==
    LET new_a == U8(m.a - value + 256)
        m1 == set_flag(m, 7, new_a = 0)
        m2 == set_flag(m1, 6, TRUE)
        m3 == set_flag(m2, 5, (m.a % 16) < (value % 16))
        m4 == set_flag(m3, 4, m.a <= value)
    IN  [m4 EXCEPT !.a = new_a]

\* alu::sub
sub(m, value) ==
    LET new_a == U8(m.a - value + 256)
        m1 == set_flag(m, 7, new_a = 0)
        m2 == set_flag(m1, 6, TRUE)
        m3 == set_flag(m2, 5, (m.a % 16) < (value % 16))
        m4 == set_flag(m3, 4, m.a < value)
    IN  [m4 EXCEPT !.a = new_a]

\* An alu call: its operand, the accumulator before the add and the
\* accumulator before this call.
AluCalled(op, value, a0, x) == [op |-> op, value |-> value, a0 |-> a0, x |-> x]

\* alu::add of an operand (ADD A,d8).
AluAdd ==
    /\ Running
    /\ last = NoCall
    /\ \E value \in 0 .. 255 :
          /\ mmu' = add(mmu, value)
          /\ last' = AluCalled("add", value, mmu.a, mmu.a)
    /\ UNCHANGED fatal
    /\ UNCHANGED NotMmu

\* alu::sub of the operand just added (SUB d8).
AluSub ==
    /\ Running
    /\ last.op = "add"
    /\ mmu' = sub(mmu, last.value)
    /\ last' = AluCalled("sub", last.value, last.a0, mmu.a)
    /\ UNCHANGED fatal
    /\ UNCHANGED NotMmu

\* MMU::new, then an accumulator a load left (LD A,d8).
InitAlu ==
    /\ \E a \in 0 .. 255 : mmu = [MMUNew EXCEPT !.a = a]
    /\ timer = TimerNew
    /\ ppu = PPUNew
    /\ fatal = ""
    /\ last = NoCall
    /\ ticksSinceDisable = -1
    /\ cpuSteps = 0
    /\ ppuElapsed = 0
    /\ ppuPowerOff = "no"
    /\ timerObs = [fed |-> 0, counter0 |-> 0]
    /\ apu = APUNew
    /\ audio = AudioNew
    /\ frame = FrameNew

NextAlu == AluAdd \/ AluSub

SpecAlu == InitAlu /\ [][NextAlu]_vars

\* C27: for every accumulator a and operand v, add(v) followed by sub(v)
\* leaves the accumulator a; after the sub the carry flag is clear whenever
\* the accumulator it subtracted from was not below v, and the half-carry
\* flag is clear whenever its low nibble was not below the low nibble of v.
C27_AddSubRestores ==
    last.op = "sub" =>
        /\ mmu.a = last.a0
        /\ last.x >= last.value => ~flag_c(mmu)
        /\ (last.x % 16 >= last.value % 16) => ~flag_h(mmu)

\* add(0x34) then sub(0x34) on accumulator 0x12: no borrow, both flags clear.
C27_Witness ==
    /\ last.op = "sub"
    /\ last.a0 = 18
    /\ last.value = 52
    /\ last.x = 70
    /\ mmu.a = 18
    /\ ~flag_c(mmu)
    /\ ~flag_h(mmu)


(***************************************************************************)
(* The emulator's frame: Emulator::emulate_frame steps the gamepad, the    *)
(* CPU, the timer, the display controller and the APU until a frame's      *)
(* worth of cycles has run, then drains the APU's samples to host::Audio.  *)
(***************************************************************************)

AUDIO_FREQ == 48000

AUDIO_BUFFER == 1024

APU_DIVISOR == 4

APU_SAMPLES_PER_AUDIO_SAMPLE == (CPU_FREQ \div APU_DIVISOR) \div AUDIO_FREQ

FRAMERATE == 60

\* systems/apu.rs: the cycles of one sample, rounded up.
CYCLES_PER_SAMPLE == (CPU_FREQ \div AUDIO_FREQ) + 1

\* The length of the wave Audio::enqueue queues, gen_wave(44_100).
GenWaveSamples == 44100

\* APU::step: the clock takes the cycles; once a sample's worth has passed
\* the counter advances and a sample is pushed, except when the counter
\* passes 110 and restarts.
apu_step(self, cycles) ==
    LET clock == self.clock + cycles
        counter == self.counter + 1
    IN  IF clock >= CYCLES_PER_SAMPLE
        THEN [clock |-> clock - CYCLES_PER_SAMPLE,
              counter |-> IF counter > 110 THEN 0 ELSE counter,
              output_buffer |-> IF counter > 110 THEN self.output_buffer
                                ELSE self.output_buffer + 1]
        ELSE [self EXCEPT !.clock = clock]

\* Audio::enqueue: AudioQueue::queue appends the generated wave to the
\* device's queue and returns.
enqueue(a) == [a EXCEPT !.queued = @ + GenWaveSamples]

\* Gamepad::step's assert_ne!: neither row of keys is selected.
gamepad_step_panic(m) ==
    IF BitAnd(m.gamepad, 32) = BitAnd(m.gamepad, 16)
    THEN "assertion failed: read_buttons != read_dpad" ELSE ""

\* Gamepad::step with no key held: both rows are 0xF.
gamepad_step(m) == [m EXCEPT !.gamepad = BitOr(@, 15)]

\* Calls of emulate_frame.
MaxFrames == 1

\* emulate_frame is called: cycle_count starts at 0.
FrameBegin ==
    /\ Running
    /\ frame.at = "idle"
    /\ frame.calls < MaxFrames
    /\ frame' = [frame EXCEPT !.at = "cpu", !.cycle_count = 0, !.cycles = 0]
    /\ UNCHANGED <<mmu, timer, ppu, fatal, last, ticksSinceDisable, cpuSteps, ppuElapsed,
                   ppuPowerOff, timerObs, apu, audio>>

\* The end of an iteration of the 'frame loop: cycle_count takes the cycles,
\* and the loop breaks once a frame's worth has run.
FrameCount(f) ==
    LET count == f.cycle_count + f.cycles
    IN  [f EXCEPT !.cycle_count = count,
                  !.at = IF count >= CPU_FREQ \div FRAMERATE THEN "drain" ELSE "cpu"]

\* One iteration of the drain loop: a device sample's worth of APU samples
\* leaves output_buffer and Audio::enqueue is called.
FrameDrain ==
    /\ Running
    /\ frame.at = "drain"
    /\ apu.output_buffer >= APU_SAMPLES_PER_AUDIO_SAMPLE
    /\ apu' = [apu EXCEPT !.output_buffer = @ - APU_SAMPLES_PER_AUDIO_SAMPLE]
    /\ audio' = enqueue(audio)
    /\ UNCHANGED <<mmu, timer, ppu, fatal, last, ticksSinceDisable, cpuSteps, ppuElapsed,
                   ppuPowerOff, timerObs, frame>>

\* The drain loop exits and emulate_frame returns.
FrameReturn ==
    /\ Running
    /\ frame.at = "drain"
    /\ apu.output_buffer < APU_SAMPLES_PER_AUDIO_SAMPLE
    /\ frame' = [frame EXCEPT !.at = "idle", !.calls = @ + 1]
    /\ UNCHANGED <<mmu, timer, ppu, fatal, last, ticksSinceDisable, cpuSteps, ppuElapsed,
                   ppuPowerOff, timerObs, apu, audio>>

\* The playback device plays a buffer's worth of the queue.
AudioPlay ==
    /\ audio.queued > 0
    /\ audio' = [audio EXCEPT !.queued = IF @ > AUDIO_BUFFER THEN @ - AUDIO_BUFFER ELSE 0]
    /\ UNCHANGED <<mmu, timer, ppu, fatal, last, ticksSinceDisable, cpuSteps, ppuElapsed,
                   ppuPowerOff, timerObs, apu, frame>>


(***************************************************************************)
(* The audio path of emulate_frame: the APU stepped with the cycles of     *)
(* each CPU step, the drain loop and the playback device.                  *)
(***************************************************************************)

\* The cycles CPU::step returns to the loop in this specification: the cost
\* of a jump and the cost of a call.
AudioCycles == {4, 6}

\* One iteration of the 'frame loop as the APU sees it: APU::step takes the
\* cycles of the CPU step, then cycle_count does.
AudioLoopStep ==
    /\ Running
    /\ frame.at = "cpu"
    /\ \E cycles \in AudioCycles :
          /\ apu' = apu_step(apu, cycles)
          /\ frame' = FrameCount([frame EXCEPT !.cycles = cycles])
    /\ UNCHANGED <<mmu, timer, ppu, fatal, last, ticksSinceDisable, cpuSteps, ppuElapsed,
                   ppuPowerOff, timerObs, audio>>

NextAudio == FrameBegin \/ AudioLoopStep \/ FrameDrain \/ FrameReturn \/ AudioPlay

SpecAudio == InitInt /\ [][NextAudio]_vars

\* C28: the samples queued for the host audio sink never exceed a fixed
\* capacity, here the buffer size the emulator declares for the device
\* (AUDIO_BUFFER); the emulation loop never waits for the queue.
C28_QueueWithinCapacity == audio.queued <= AUDIO_BUFFER


(***************************************************************************)
(* The whole of emulate_frame, run on a guest program that idles: NOPs     *)
(* from the entry point 0x0100 and, at 0x01FF, JP a16 with the operand     *)
(* bytes the image holds there, 0x00 0x01, which jumps back to 0x0100.     *)
(***************************************************************************)

\* The opcode byte of the guest program at an address.
FrameOpcode(pc) == IF pc = 511 THEN 195 ELSE 0

\* The writes to TAC (0xFF07) the guest has made before the frame: the
\* timer started with clock select 0 or 1.
FrameWrites == {<<65287, 4>>, <<65287, 5>>}

\* The guest starts the timer before the first frame.
FrameGuestWrite ==
    /\ Running
    /\ frame.at = "idle"
    /\ frame.calls = 0
    /\ \E w \in FrameWrites : mmu' = wb(mmu, w[1], w[2])
    /\ last' = Called("wb", None)
    /\ UNCHANGED <<timer, ppu, fatal, ticksSinceDisable, cpuSteps, ppuElapsed, ppuPowerOff,
                   timerObs, Host>>

\* gamepad.step(mmu) and cpu.step(mmu): the loop keeps the cycles returned.
FrameCpu ==
    /\ Running
    /\ frame.at = "cpu"
    /\ LET r == step(gamepad_step(mmu), FrameOpcode(mmu.pc))
       IN  IF gamepad_step_panic(mmu) # ""
           THEN /\ fatal' = gamepad_step_panic(mmu)
                /\ UNCHANGED <<mmu, last, frame>>
           ELSE /\ mmu' = r.st
                /\ last' = [op |-> "step", ret |-> r.ret, irq |-> r.irq, opcode |-> r.opcode]
                /\ fatal' = r.panic
                /\ frame' = [frame EXCEPT !.at = "timer", !.cycles = r.ret]
    /\ UNCHANGED <<timer, ppu, ticksSinceDisable, cpuSteps, ppuElapsed, ppuPowerOff, timerObs,
                   apu, audio>>

\* timer.step(mmu, cycles) is entered with the cycles of the CPU step.
FrameTimer ==
    /\ Running
    /\ frame.at = "timer"
    /\ timer.at = "idle"
    /\ timer' = [timer EXCEPT !.divider_lapsed = U16(@ + frame.cycles),
                              !.at = "divider", !.cycles = frame.cycles]
    /\ frame' = [frame EXCEPT !.at = "display"]
    /\ UNCHANGED <<mmu, ppu, fatal, last, ticksSinceDisable, cpuSteps, ppuElapsed, ppuPowerOff,
                   timerObs, apu, audio>>

\* Timer::step has returned: ppu.step(mmu, cycles) and apu.step(mmu, cycles)
\* run with the same cycles, and the iteration ends.
FrameDisplayAudio ==
    /\ Running
    /\ frame.at = "display"
    /\ timer.at = "idle"
    /\ LET r == ppu_step(ppu, mmu, frame.cycles)
       IN  /\ ppu' = r.self
           /\ mmu' = r.mmu
    /\ ppuElapsed' = (ppuElapsed + frame.cycles) % FrameCycles
    /\ apu' = apu_step(apu, frame.cycles)
    /\ frame' = FrameCount(frame)
    /\ UNCHANGED <<timer, fatal, last, ticksSinceDisable, cpuSteps, ppuPowerOff, timerObs, audio>>

\* The steps of a call of emulate_frame that has begun.
FrameRun ==
    FrameCpu \/ FrameTimer \/ TimerRun \/ FrameDisplayAudio \/ FrameDrain \/ FrameReturn

NextFrame == FrameGuestWrite \/ FrameBegin \/ FrameRun \/ AudioPlay

SpecFrame == InitInt /\ [][NextFrame]_vars

\* A call of emulate_frame keeps running: the loop is single-threaded and
\* nothing it calls waits for another thread.
SpecFrameFair == SpecFrame /\ WF_vars(FrameRun)

\* C29: every call of emulate_frame terminates (here: returns, unless a
\* step panics).
C29_FrameTerminates == (frame.at # "idle") ~> (frame.at = "idle" \/ ~Running)

\* The parts of C29 about one iteration: the timer, the display controller
\* and the APU take exactly the cycles CPU::step returned, which are at
\* least 1, and the loop breaks at the first iteration whose cycle_count
\* reaches CPU_FREQ / 60.
C29_IterationCycles ==
    /\ (frame.at \in {"display", "drain"} /\ Running) => frame.cycles >= 1
    /\ (frame.at = "display" /\ timer.at # "idle") => timer.cycles = frame.cycles
    /\ frame.at \in {"cpu", "timer", "display"} =>
          frame.cycle_count < CPU_FREQ \div FRAMERATE
    /\ frame.at = "drain" =>
          /\ frame.cycle_count >= CPU_FREQ \div FRAMERATE
          /\ frame.cycle_count - frame.cycles < CPU_FREQ \div FRAMERATE


(***************************************************************************)
(* The VBlank lines of the display controller.                             *)
(***************************************************************************)

\* C30: in every reachable state the scanline is within 0..153 and the mode
\* is 1 exactly on the lines 144..153; with the display on each of those
\* lines lasts 456 cycles (line L is current from cycle 456 * L of the frame
\* to cycle 456 * L + 455); and the step that leaves line 153 wraps the
\* scanline to 0 and makes the mode 2.
C30_VBlankLines ==
    /\ [](/\ mmu.ppu.line \in 0 .. 153
          /\ (mmu.ppu.mode = 1) <=> (mmu.ppu.line \in 144 .. 153)
          /\ (DisplayRunning /\ (mmu.ppu.line >= 144 \/ ppuElapsed >= 144 * 456)) =>
                /\ mmu.ppu.line = ppuElapsed \div 456
                /\ ppu.modeclock = ppuElapsed % 456)
    /\ [][(PpuStep /\ mmu.ppu.line = 153 /\ mmu'.ppu.line # 153) =>
             (mmu'.ppu.line = 0 /\ mmu'.ppu.mode = 2)]_vars

\* The state right after a whole frame: the step that ended line 153 left
\* line 0 in mode 2.
C30_Witness ==
    /\ DisplayRunning
    /\ ppuElapsed = 0
    /\ ppu.modeclock = 0
    /\ mmu.ppu.line = 0
    /\ mmu.ppu.mode = 2
    /\ VBlankRequested(mmu)


(***************************************************************************)
(* The ALU's additions and subtractions with carry, called with every      *)
(* accumulator, operand and carry flag.                                    *)
(***************************************************************************)

\* alu::adc: the carry flag is added to the operand (wrapping) before the
\* overflowing add; the half-carry is computed from the operand alone.
adc(m, value) ==
    LET value_with_carry == U8(value + (IF flag_c(m) THEN 1 ELSE 0))
        new_a == U8(m.a + value_with_carry)
        overflow == m.a + value_with_carry > 255
        m1 == set_flag(m, 7, new_a = 0)
        m2 == set_flag(m1, 6, FALSE)
        m3 == set_flag(m2, 5, (m.a % 16) + (value % 16) > 15)
        m4 == set_flag(m3, 4, overflow)
    IN  [m4 EXCEPT !.a = new_a]

\* alu::sbc's `value + mmu.flag_c() as u8`: a build with overflow checks
\* panics when the sum passes 255, a build without them wraps.
sbc_panic(m, value, overflow_checks) ==
    IF overflow_checks /\ value + (IF flag_c(m) THEN 1 ELSE 0) > 255
    THEN "attempt to add with overflow" ELSE ""

\* alu::sbc: sub of the operand plus the carry flag.
sbc(m, value) == sub(m, U8(value + (IF flag_c(m) THEN 1 ELSE 0)))

\* A call of adc or sbc: its operand, and the accumulator and the carry
\* flag (0 or 1) it started from.
CarryCalled(op, value, a0, c0) == [op |-> op, value |-> value, a0 |-> a0, c0 |-> c0]

\* The carry flag as a number.
CarryIn(m) == IF flag_c(m) THEN 1 ELSE 0

\* alu::adc of an operand (ADC A,d8).
AluAdc ==
    /\ Running
    /\ last = NoCall
    /\ \E value \in 0 .. 255 :
          /\ mmu' = adc(mmu, value)
          /\ last' = CarryCalled("adc", value, mmu.a, CarryIn(mmu))
    /\ UNCHANGED fatal
    /\ UNCHANGED NotMmu

\* alu::sbc of an operand (SBC A,d8), in a build with or without overflow
\* checks.
AluSbc ==
    /\ Running
    /\ last = NoCall
    /\ \E value \in 0 .. 255, overflow_checks \in BOOLEAN :
          /\ fatal' = sbc_panic(mmu, value, overflow_checks)
          /\ mmu' = IF fatal' = "" THEN sbc(mmu, value) ELSE mmu
          /\ last' = CarryCalled("sbc", value, mmu.a, CarryIn(mmu))
    /\ UNCHANGED NotMmu

\* MMU::new, then an accumulator and a carry flag that earlier opcodes left.
InitAluCarry ==
    /\ \E a \in 0 .. 255, c \in BOOLEAN : mmu = set_flag([MMUNew EXCEPT !.a = a], 4, c)
    /\ timer = TimerNew
    /\ ppu = PPUNew
    /\ fatal = ""
    /\ last = NoCall
    /\ ticksSinceDisable = -1
    /\ cpuSteps = 0
    /\ ppuElapsed = 0
    /\ ppuPowerOff = "no"
    /\ timerObs = [fed |-> 0, counter0 |-> 0]
    /\ apu = APUNew
    /\ audio = AudioNew
    /\ frame = FrameNew

NextAluCarry == AluAdc \/ AluSbc

SpecAluCarry == InitAluCarry /\ [][NextAluCarry]_vars

\* C31: for every accumulator a, operand v and carry-in c, adc leaves
\* (a + v + c) mod 256 with carry iff a + v + c > 0xFF and half-carry iff
\* (a & 0xF) + (v & 0xF) + c > 0xF; sbc leaves (a - v - c) mod 256 with carry
\* iff a < v + c and half-carry iff (a & 0xF) < (v & 0xF) + c; and both
\* calls complete.
C31_AdcSbcFlags ==
    LET a == last.a0
        v == last.value
        c == last.c0
    IN  /\ last.op = "adc" =>
              /\ mmu.a = (a + v + c) % 256
              /\ flag_c(mmu) <=> (a + v + c > 255)
              /\ flag_h(mmu) <=> ((a % 16) + (v % 16) + c > 15)
        /\ last.op = "sbc" =>
              /\ fatal = ""
              /\ mmu.a = (a - v - c + 512) % 256
              /\ flag_c(mmu) <=> (a < v + c)
              /\ flag_h(mmu) <=> ((a % 16) < (v % 16) + c)


(***************************************************************************)
(* The conditional relative jumps, stepped from several addresses of the   *)
(* image so that the offset byte takes both signs.                         *)
(***************************************************************************)

\* JR NZ, JR Z, JR NC and JR C.
RelativeJumps == {32, 40, 48, 56}

\* Addresses of the opcode byte: the offset bytes that follow them in the
\* image are 0x01, 0x11, 0x7F, 0x80, 0xF0 and 0xFF.
JumpAddresses == {256, 272, 382, 383, 495, 510}

\* A CPU step on a relative jump: the program counter it started from, the
\* offset byte that follows the opcode and whether the condition held.
Jumped(r, opcode, pc0, offset, taken) ==
    [op |-> "jr", ret |-> r.ret, irq |-> r.irq, opcode |-> opcode,
     pc0 |-> pc0, offset |-> offset, taken |-> taken]

JumpStep ==
    /\ Running
    /\ cpuSteps < MaxBranchSteps
    /\ \E opcode \in RelativeJumps :
          LET r == step(mmu, opcode)
          IN  /\ mmu' = r.st
              /\ last' = Jumped(r, opcode, mmu.pc, rb(mmu, U16(mmu.pc + 1)),
                                ConditionHolds(mmu, opcode))
              /\ fatal' = r.panic
    /\ cpuSteps' = cpuSteps + 1
    /\ UNCHANGED <<timer, ppu, ticksSinceDisable, ppuElapsed, ppuPowerOff, timerObs, Host>>

\* MMU::new, then flags an arithmetic opcode left and a program counter a
\* jump left.
InitJump ==
    /\ \E f \in FlagValues, pc \in JumpAddresses : mmu = [MMUNew EXCEPT !.f = f, !.pc = pc]
    /\ timer = TimerNew
    /\ ppu = PPUNew
    /\ fatal = ""
    /\ last = NoCall
    /\ ticksSinceDisable = -1
    /\ cpuSteps = 0
    /\ ppuElapsed = 0
    /\ ppuPowerOff = "no"
    /\ timerObs = [fed |-> 0, counter0 |-> 0]
    /\ apu = APUNew
    /\ audio = AudioNew
    /\ frame = FrameNew

NextJump == JumpStep

SpecJump == InitJump /\ [][NextJump]_vars

\* C32: a step on JR NZ, JR Z, JR NC or JR C consumes the offset byte: the
\* program counter it leaves is the address after the operand plus the
\* signed offset (mod 2^16) when the condition held, and the address after
\* the operand when it did not.
C32_RelativeJumpTarget ==
    last.op = "jr" =>
        mmu.pc = IF last.taken
                 THEN (last.pc0 + 2 + Signed8(last.offset) + 65536) % 65536
                 ELSE U16(last.pc0 + 2)


(***************************************************************************)
(* The register-to-register loads 0x40..0x7F, stepped on registers that    *)
(* all differ, with HL in work RAM or in high RAM.                         *)
(***************************************************************************)

\* CPU steps of a run of loads.
MaxLoadSteps == 2

\* The high byte of HL: 0xC0 (work RAM) and 0xFF (high RAM).
LoadHighBytes == {192, 255}

\* A CPU step on a load: the MMU it started from.
Loaded(r, opcode, before) ==
    [op |-> "ld", ret |-> r.ret, irq |-> r.irq, opcode |-> opcode, before |-> before]

LoadStep ==
    /\ Running
    /\ cpuSteps < MaxLoadSteps
    /\ \E opcode \in LoadOpcodes :
          LET r == step(mmu, opcode)
          IN  /\ mmu' = r.st
              /\ last' = Loaded(r, opcode, mmu)
              /\ fatal' = r.panic
    /\ cpuSteps' = cpuSteps + 1
    /\ UNCHANGED <<timer, ppu, ticksSinceDisable, ppuElapsed, ppuPowerOff, timerObs, Host>>

\* MMU::new, then registers that immediate loads left: seven different
\* bytes, HL = 0xC086 or 0xFF86.
InitLoad ==
    /\ \E high \in LoadHighBytes :
          mmu = [MMUNew EXCEPT !.a = 161, !.b = 178, !.c = 195, !.d = 212, !.e = 229,
                               !.h = high, !.l = 134]
    /\ timer = TimerNew
    /\ ppu = PPUNew
    /\ fatal = ""
    /\ last = NoCall
    /\ ticksSinceDisable = -1
    /\ cpuSteps = 0
    /\ ppuElapsed = 0
    /\ ppuPowerOff = "no"
    /\ timerObs = [fed |-> 0, counter0 |-> 0]
    /\ apu = APUNew
    /\ audio = AudioNew
    /\ frame = FrameNew

NextLoad == LoadStep

SpecLoad == InitLoad /\ [][NextLoad]_vars

\* The destination bits 5..3 of a load opcode encode, written with a value:
\* B, C, D, E, H, L, the byte at HL, A.
EncodedLoad(m, opcode, v) ==
    CASE (opcode \div 8) % 8 = 0 -> [m EXCEPT !.b = v]
      [] (opcode \div 8) % 8 = 1 -> [m EXCEPT !.c = v]
      [] (opcode \div 8) % 8 = 2 -> [m EXCEPT !.d = v]
      [] (opcode \div 8) % 8 = 3 -> [m EXCEPT !.e = v]
      [] (opcode \div 8) % 8 = 4 -> [m EXCEPT !.h = v]
      [] (opcode \div 8) % 8 = 5 -> [m EXCEPT !.l = v]
      [] (opcode \div 8) % 8 = 6 -> wb(m, hl(m), v)
      [] (opcode \div 8) % 8 = 7 -> [m EXCEPT !.a = v]

\* C33: a step on a dispatched load opcode of 0x40..0x7F that returns leaves
\* the MMU it started from with the program counter past the opcode and the
\* source (opcode bits 2..0) copied into the destination that opcode bits
\* 5..3 encode; nothing else differs.
C33_LoadCopies ==
    (last.op = "ld" /\ fatal = "") =>
        LET m1 == get_next_byte(last.before)
        IN  mmu = EncodedLoad(m1, last.opcode, LoadSource(m1, last.opcode))


(***************************************************************************)
(* The LCD status interrupt: the display controller stepped after the      *)
(* guest has written the status register (0xFF41) and the compare register *)
(* (0xFF45), while the guest acknowledges requests.                        *)
(***************************************************************************)

\* Writes to STAT: the enables of modes 1 and 2 (0x30), of mode 0 and the
\* comparator (0x48); and to LYC: line 144.
StatWrites == ({65345} \X {48, 72}) \cup ({65349} \X {144})

\* The guest sets up the status interrupt before the display is stepped.
PpuConfigure ==
    /\ Running
    /\ last = NoCall
    /\ \E w \in StatWrites : mmu' = wb(mmu, w[1], w[2])
    /\ UNCHANGED <<timer, ppu, fatal, last, ticksSinceDisable, cpuSteps, ppuElapsed,
                   ppuPowerOff, timerObs, Host>>

\* A step of the display controller: the mode, the line and the request
\* mask it started from.
StepSeen(m) ==
    [op |-> "ppu_step", ret |-> None, irq |-> None, opcode |-> NoOpcode,
     mode0 |-> m.ppu.mode, line0 |-> m.ppu.line, intf0 |-> m.interrupts.intf]

\* PPU::step, observed.
PpuSeenStep ==
    /\ Running
    /\ \E cycles \in CycleSet :
          LET r == ppu_step(ppu, mmu, cycles)
          IN  /\ ppu' = r.self
              /\ mmu' = r.mmu
              /\ ppuElapsed' = (ppuElapsed + cycles) % FrameCycles
    /\ last' = StepSeen(mmu)
    /\ UNCHANGED <<timer, fatal, ticksSinceDisable, cpuSteps, ppuPowerOff, timerObs, Host>>

\* The guest acknowledges every request (a write of 0 to 0xFF0F).
PpuAcknowledge ==
    /\ Running
    /\ last.op = "ppu_step"
    /\ mmu' = wb(mmu, 65295, 0)
    /\ last' = [StepSeen(mmu) EXCEPT !.op = "acknowledge"]
    /\ UNCHANGED <<timer, ppu, fatal, ticksSinceDisable, cpuSteps, ppuElapsed,
                   ppuPowerOff, timerObs, Host>>

NextPpuStat == PpuConfigure \/ PpuSeenStep \/ PpuAcknowledge

SpecPpuStat == InitInt /\ [][NextPpuStat]_vars

\* The LCD-status request bit (bit 1) of a request mask.
StatRequested(intf) == is_bit_set(intf, 1)

\* The enable bit of a mode in the status register; mode 3 has none.
ModeEnabled(p, mode) ==
    CASE mode = 0 -> p.mode0_int_enable
      [] mode = 1 -> p.mode1_int_enable
      [] mode = 2 -> p.mode2_int_enable
      [] mode = 3 -> FALSE

\* The step changed the line to the compare value with the comparator's
\* interrupt enabled.
CompareHit == mmu.ppu.line # last.line0 /\ mmu.ppu.lyc_int_enable /\ mmu.ppu.line = mmu.ppu.lyc

\* The step changed the mode.
ModeChanged == mmu.ppu.mode # last.mode0

\* C34: a step that changes the mode leaves the LCD-status request bit set
\* if the enable bit of the entered mode is set, and (the comparator apart)
\* as it was if that bit is clear; mode 3 has no enable bit and never
\* requests.
C34_ModeChangeRequests ==
    (last.op = "ppu_step" /\ ModeChanged) =>
        /\ ModeEnabled(mmu.ppu, mmu.ppu.mode) => StatRequested(mmu.interrupts.intf)
        /\ (~ModeEnabled(mmu.ppu, mmu.ppu.mode) /\ ~CompareHit) =>
              (StatRequested(mmu.interrupts.intf) <=> StatRequested(last.intf0))

\* Mode 3 entered with the enables of modes 1 and 2 set and no request
\* pending: none is made.
C34_Witness ==
    /\ last.op = "ppu_step"
    /\ last.mode0 = 2
    /\ mmu.ppu.mode = 3
    /\ mmu.ppu.mode2_int_enable
    /\ ~StatRequested(last.intf0)
    /\ ~StatRequested(mmu.interrupts.intf)

\* C35: a step that changes the line to the compare value leaves the
\* LCD-status request bit set if the comparator's enable (status bit 6) is
\* set; when the enable is clear or the new line differs from the compare
\* value, the bit is as it was unless the mode change of the step requested
\* it.
C35_CompareRequests ==
    (last.op = "ppu_step" /\ mmu.ppu.line # last.line0) =>
        /\ CompareHit => StatRequested(mmu.interrupts.intf)
        /\ (~CompareHit /\ ~(ModeChanged /\ ModeEnabled(mmu.ppu, mmu.ppu.mode))) =>
              (StatRequested(mmu.interrupts.intf) <=> StatRequested(last.intf0))

\* The step from line 143 to line 144 with the compare value 144, the
\* comparator enabled and the enable of mode 1 clear: the bit becomes set.
C35_Witness ==
    /\ last.op = "ppu_step"
    /\ last.line0 = 143
    /\ mmu.ppu.line = 144
    /\ mmu.ppu.lyc = 144
    /\ mmu.ppu.lyc_int_enable
    /\ ~mmu.ppu.mode1_int_enable
    /\ ~StatRequested(last.intf0)
    /\ StatRequested(mmu.interrupts.intf)


(***************************************************************************)
(* Sprites: the display controller stepped over the first lines of a frame *)
(* after the guest has filled the sprite table, the tile data and the      *)
(* palettes.  The image buffer is carried for every column of those lines. *)
(***************************************************************************)

\* Lines of the frame that are stepped over.
MaxSpriteLines == 1

SpriteCells == {PixelIndex(line, col) : line \in 0 .. MaxSpriteLines - 1, col \in 0 .. 159}

\* The table indexes of the sprites placed on the first lines.
SpriteSets ==
    {0 .. 39, 5 .. 20, {s \in 0 .. 39 : s % 2 = 0}, 28 .. 39, {3, 17}}

\* How the placed sprites are spread over the line: the distance between
\* the x positions of neighbours in the table, and the x position of entry 0
\* counted from -7.
SpriteSpreads == {<<0, 10>>, <<3, 0>>, <<8, 0>>, <<5, 150>>}

\* Where the entries that are not placed lie: above the screen, left of it,
\* right of it, or below the lines stepped over.
SpriteRests == {"above", "left", "right", "below"}

\* The four bytes of table entry s in a layout.  A placed entry has its top
\* 0, 5 or 10 lines above line 0, an x position within -7 .. 159, tile s + 1,
\* and palette and flip flags that vary with s.
EntryBytes(layout, s) ==
    IF s \in layout.set
    THEN << 16 - 5 * (s % 3),
            1 + ((layout.spread[2] + layout.spread[1] * s) % 167),
            s + 1,
            layout.flags + (IF s % 3 = 1 THEN 16 ELSE 0) + (IF s % 5 = 2 THEN 32 ELSE 0)
                         + (IF s % 7 = 3 THEN 64 ELSE 0) >>
    ELSE CASE layout.rest = "above" -> <<0, 20, s + 1, layout.flags>>
           [] layout.rest = "left" -> <<16, 0, s + 1, layout.flags>>
           [] layout.rest = "right" -> <<16, 168, s + 1, layout.flags>>
           [] layout.rest = "below" -> <<17 + MaxSpriteLines, 20, s + 1, layout.flags>>

\* A byte store after writes of the bytes of a function, one wb each.
Stored(bytes) == [o \in {k \in DOMAIN bytes : bytes[k] # 0} |-> bytes[o]]

\* The sprite table (0xFE00 .. 0xFE9F) after the writes of a layout.
SpriteTable(layout) == Stored([n \in 0 .. 159 |-> EntryBytes(layout, n \div 4)[(n % 4) + 1]])

\* Video memory after the writes of the tile data (0x8000 ..): tiles 0 .. 41,
\* bytes that differ from tile to tile and from row to row.
SpriteTiles == Stored([n \in 0 .. 671 |-> (n * 37 + 11) % 256])

\* The writes of the palettes: OBP0 (0xFF48) 0xE4, OBP1 (0xFF49) 0x1B.
SpritePaletteWrites == << <<65352, 228>>, <<65353, 27>> >>

\* The values written to LCDC: sprites on, with 8x8 sprites and no
\* background (0x82), 8x16 sprites and no background (0x86), 8x8 sprites
\* over the background of tile data 0x8000 (0x93).
SpriteLcdcValues == {130, 134, 147}

SpriteGuest(layout, lcdc) ==
    WriteAll([MMUNew EXCEPT !.oam = SpriteTable(layout), !.vram = SpriteTiles],
             SpritePaletteWrites \o << <<65344, lcdc>> >>)

\* Cycles of the CPU steps between the steps of the display controller.
SpriteCycles == {12, 24}

\* A step of the display controller, with the buffer it started from.
DrawSeen(m, self) ==
    [op |-> "ppu_step", ret |-> None, irq |-> None, opcode |-> NoOpcode,
     mode0 |-> m.ppu.mode, line0 |-> m.ppu.line, intf0 |-> m.interrupts.intf,
     buffer0 |-> self.image_buffer]

\* PPU::step over the lines below MaxSpriteLines.
SpriteStep ==
    /\ Running
    /\ mmu.ppu.line < MaxSpriteLines
    /\ \E cycles \in SpriteCycles :
          LET panic == ppu_step_panic(ppu, mmu, cycles)
              r == ppu_step(ppu, mmu, cycles)
          IN  /\ fatal' = panic
              /\ ppu' = IF panic = "" THEN r.self ELSE ppu
              /\ mmu' = IF panic = "" THEN r.mmu ELSE mmu
              /\ ppuElapsed' = (ppuElapsed + cycles) % FrameCycles
    /\ last' = DrawSeen(mmu, ppu)
    /\ UNCHANGED <<timer, ticksSinceDisable, cpuSteps, ppuPowerOff, timerObs, Host>>

InitSpriteWith(flags, lcdcs) ==
    /\ \E set \in SpriteSets, spread \in SpriteSpreads, rest \in SpriteRests, lcdc \in lcdcs :
          mmu = SpriteGuest([set |-> set, spread |-> spread, rest |-> rest, flags |-> flags],
                            lcdc)
    /\ timer = TimerNew
    /\ ppu = [PPUNew EXCEPT !.image_buffer = [i \in SpriteCells |-> 0]]
    /\ fatal = ""
    /\ last = NoCall
    /\ ticksSinceDisable = -1
    /\ cpuSteps = 0
    /\ ppuElapsed = 0
    /\ ppuPowerOff = "no"
    /\ timerObs = [fed |-> 0, counter0 |-> 0]
    /\ apu = APUNew
    /\ audio = AudioNew
    /\ frame = FrameNew

\* Sprites in front of the background.
InitSprite == InitSpriteWith(0, SpriteLcdcValues)

NextSprite == SpriteStep

SpecSprite == InitSprite /\ [][NextSprite]_vars

\* The step drew the current line: it entered mode 0.
LineDrawn == last.op = "ppu_step" /\ fatal = "" /\ last.mode0 # 0 /\ mmu.ppu.mode = 0

\* Entry s of the sprite table intersects the current line of the screen:
\* the line is one of its rows and one of its columns is on the screen.
Intersects(s) ==
    LET e == SpriteEntry(mmu, s)
    IN  /\ \E row \in 0 .. sprite_y_size(mmu) - 1 : e.y_pos + row = mmu.ppu.line
        /\ \E p \in 0 .. 7 : e.x_pos + p \in 0 .. 159

\* The first 10 entries in table order that intersect the current line.
FirstTen ==
    LET all == {s \in 0 .. 39 : Intersects(s)}
    IN  {s \in all : Cardinality({t \in all : t < s}) < 10}

\* The entries of a set that cover a column of the screen.
Covering(sprites, col) == {s \in sprites : col - SpriteEntry(mmu, s).x_pos \in 0 .. 7}

\* The colour entry s has at a column of the current line.
SpriteColor(s, col) ==
    LET e == SpriteEntry(mmu, s)
        row == IF is_bit_set(e.flags, 6) THEN sprite_y_size(mmu) - 1 - (mmu.ppu.line - e.y_pos)
               ELSE mmu.ppu.line - e.y_pos
        p == IF is_bit_set(e.flags, 5) THEN 7 - (col - e.x_pos) ELSE col - e.x_pos
        address == 32768 + e.sprite_number * 16 + row * 2
    IN  PaletteColor(IF is_bit_set(e.flags, 4) THEN mmu.ppu.obj_palette_1
                     ELSE mmu.ppu.obj_palette_0,
                     get_pixel(rb(mmu, address), rb(mmu, address + 1), p))

\* The line as background and window leave it.
Backdrop == draw_window_scanline(draw_background_scanline(last.buffer0, mmu), mmu)

Least(set) == CHOOSE s \in set : \A t \in set : s <= t

SpritePositions == (0 - 7) .. 159

\* The table with entry 0 at an x position and every other entry zero.
PriorityTable(x_pos) == Stored([n \in 0 .. 3 |-> <<16, x_pos + 8, 1, 128>>[n + 1]])

InitSpritePriority ==
    /\ \E x_pos \in SpritePositions :
          mmu = WriteAll([MMUNew EXCEPT !.oam = PriorityTable(x_pos), !.vram = SpriteTiles],
                         SpritePaletteWrites \o << <<65344, 147>> >>)
    /\ timer = TimerNew
    /\ ppu = [PPUNew EXCEPT !.image_buffer = [i \in SpriteCells |-> 0]]
    /\ fatal = ""
    /\ last = NoCall
    /\ ticksSinceDisable = -1
    /\ cpuSteps = 0
    /\ ppuElapsed = 0
    /\ ppuPowerOff = "no"
    /\ timerObs = [fed |-> 0, counter0 |-> 0]
    /\ apu = APUNew
    /\ audio = AudioNew
    /\ frame = FrameNew

SpecSpritePriority == InitSpritePriority /\ [][NextSprite]_vars

\* C37: with the background on and the priority flag of the sprite set, the
\* step that draws the line completes for every x position from -7 to 159,
\* and each pixel of the sprite that is on the screen is left as the
\* background drew it if and only if the background pixel of that same
\* column has a non-zero colour index; else it has the colour of the sprite.
C37_PriorityByColumn ==
    /\ fatal = ""
    /\ LineDrawn =>
          LET backdrop == Backdrop
              x_pos == SpriteEntry(mmu, 0).x_pos
          IN  \A col \in 0 .. 159 :
                  (col - x_pos \in 0 .. 7) =>
                      ppu.image_buffer[PixelIndex(mmu.ppu.line, col)] =
                          IF background_pixel(mmu, col) # 0
                          THEN backdrop[PixelIndex(mmu.ppu.line, col)]
                          ELSE SpriteColor(0, col)


(***************************************************************************)
(* The master enable under DI, EI and RETI: CPU steps over NOP, DI, EI and *)
(* RETI with the stack in high RAM, while the guest writes the two         *)
(* interrupt registers between steps.                                      *)
(***************************************************************************)

\* CPU steps of one run.
MaxImeSteps == 5

\* NOP, RETI, DI, EI.
ImeOpcodes == {0, 217, 243, 251}

\* The masks written to 0xFF0F and 0xFFFF.
ImeMasks == {0, 22}

\* What is known of the requests before the first step: none was made.
ImeNone ==
    [op |-> "new", ret |-> None, irq |-> None, opcode |-> NoOpcode,
     ime0 |-> TRUE, dc0 |-> 0, ec0 |-> 0, active0 |-> 0, request |-> "none",
     sinceD |-> None, firstD |-> None, sinceE |-> None, run |-> << >>]

\* A CPU step seen from outside: what the controller held before it, the
\* most recent request (DI asks for false, EI and RETI for true), the ticks
\* since the most recent DI, since the first DI of a series of overlapping
\* ones and since the most recent EI (None after a RETI, which replaces
\* the request), and the interrupts serviced by this and the steps before
\* it with no opcode or write between.
ImeSeen(r, m, seen) ==
    LET ticked == tick_ime_timer(m.interrupts)
    IN  [op |-> "step", ret |-> r.ret, irq |-> r.irq, opcode |-> r.opcode,
         ime0 |-> m.interrupts.ime,
         dc0 |-> m.interrupts.disable_ime_counter,
         ec0 |-> m.interrupts.enable_ime_counter,
         active0 |-> BitAnd(m.interrupts.inte, m.interrupts.intf),
         request |-> CASE r.opcode = 243 -> "disable"
                       [] r.opcode \in {217, 251} -> "enable"
                       [] OTHER -> seen.request,
         sinceD |-> IF r.opcode = 243 THEN 0 ELSE TickObserved(seen.sinceD),
         firstD |-> IF r.opcode = 243 /\ ticked.disable_ime_counter = 0 THEN 0
                    ELSE TickObserved(seen.firstD),
         sinceE |-> CASE r.opcode = 251 -> 0
                      [] r.opcode = 217 -> None
                      [] OTHER -> TickObserved(seen.sinceE),
         run |-> IF r.irq # None THEN Append(seen.run, r.irq) ELSE << >>]

\* CPU::step
ImeStep ==
    /\ Running
    /\ cpuSteps < MaxImeSteps
    /\ \E opcode \in ImeOpcodes :
          /\ Fetchable(opcode)
          /\ LET r == step(mmu, opcode)
             IN  /\ mmu' = r.st
                 /\ last' = ImeSeen(r, mmu, last)
                 /\ fatal' = r.panic
    /\ cpuSteps' = cpuSteps + 1
    /\ UNCHANGED <<timer, ppu, ticksSinceDisable, ppuElapsed, ppuPowerOff, timerObs, Host>>

\* A guest write to 0xFF0F (65295) or 0xFFFF (65535) between two steps.
ImeWrite ==
    /\ Running
    /\ \E address \in {65295, 65535}, v \in ImeMasks : mmu' = wb(mmu, address, v)
    /\ last' = [last EXCEPT !.op = "wb", !.irq = None, !.opcode = NoOpcode, !.run = << >>]
    /\ UNCHANGED <<timer, ppu, fatal, ticksSinceDisable, cpuSteps, ppuElapsed, ppuPowerOff,
                   timerObs, Host>>

InitIme ==
    /\ mmu = [MMUNew EXCEPT !.sp = 65504]     \* the guest has set the stack pointer to 0xFFE0
    /\ timer = TimerNew
    /\ ppu = PPUNew
    /\ fatal = ""
    /\ last = ImeNone
    /\ ticksSinceDisable = -1
    /\ cpuSteps = 0
    /\ ppuElapsed = 0
    /\ ppuPowerOff = "no"
    /\ timerObs = [fed |-> 0, counter0 |-> 0]
    /\ apu = APUNew
    /\ audio = AudioNew
    /\ frame = FrameNew

NextIme == ImeStep \/ ImeWrite

SpecIme == InitIme /\ [][NextIme]_vars

\* C38: a DI or EI leaves its counter at 2 whether or not the counter was
\* running; the first tick after the most recent DI does not clear the
\* master enable and the second does (an enable maturing in that tick sets
\* it again); the first tick after the most recent EI does not set the
\* master enable and the second does.
C38_RestartedCounter ==
    last.op = "step" =>
        /\ last.opcode = 243 => mmu.interrupts.disable_ime_counter = 2
        /\ last.opcode = 251 => mmu.interrupts.enable_ime_counter = 2
        /\ last.sinceD = 1 =>
              mmu.interrupts.disable_ime_counter = 1 /\ (last.ime0 => mmu.interrupts.ime)
        /\ last.sinceD = 2 =>
              /\ mmu.interrupts.disable_ime_counter = 0
              /\ mmu.interrupts.ime <=> last.ec0 = 1
        /\ last.sinceE = 1 =>
              mmu.interrupts.enable_ime_counter = 1 /\ (mmu.interrupts.ime => last.ime0)
        /\ last.sinceE = 2 =>
              mmu.interrupts.enable_ime_counter = 0 /\ mmu.interrupts.ime

\* The second tick after a DI that was executed while the counter of an
\* earlier DI was running, three ticks after that earlier DI: the master
\* enable, true until this tick, is false.
C38_Witness ==
    /\ last.op = "step"
    /\ last.sinceD = 2
    /\ last.firstD = 3
    /\ last.dc0 = 1
    /\ last.ime0
    /\ ~mmu.interrupts.ime

\* C39 as stated: a step that services an interrupt leaves the master enable
\* as it was before the step, and a step taken with the master enable true
\* and an enabled interrupt requested services the lowest such interrupt
\* and executes no opcode.
C39_ServiceKeepsIme ==
    last.op = "step" =>
        /\ last.irq # None => mmu.interrupts.ime = last.ime0
        /\ (last.ime0 /\ last.active0 # 0) =>
              last.irq = trailing_zeros(last.active0) /\ last.opcode = NoOpcode

\* C39 with the delay counters taken into account: a step that services an
\* interrupt leaves the master enable as the tick of the step made it (set
\* by an enable that matured, else cleared by a disable that matured, else
\* as before); a step taken with the master enable true, no disable
\* pending and an enabled interrupt requested services the lowest such
\* interrupt, executes no opcode, clears that request only and leaves the
\* master enable true with no disable pending, so that the next step does
\* the same; the interrupts serviced by consecutive steps ascend.
C39_ServiceKeepsTickedIme ==
    last.op = "step" =>
        /\ last.irq # None =>
              mmu.interrupts.ime = (IF last.ec0 = 1 THEN TRUE
                                    ELSE IF last.dc0 = 1 THEN FALSE ELSE last.ime0)
        /\ (last.ime0 /\ last.dc0 = 0 /\ last.active0 # 0) =>
              /\ last.irq = trailing_zeros(last.active0)
              /\ last.opcode = NoOpcode
              /\ mmu.interrupts.ime
              /\ mmu.interrupts.disable_ime_counter = 0
              /\ BitAnd(mmu.interrupts.inte, mmu.interrupts.intf) =
                     ClearBit(last.active0, last.irq)
        /\ \A j \in 1 .. Len(last.run) - 1 : last.run[j] < last.run[j + 1]

\* Three interrupts (LCD status, timer, joypad) serviced by three consecutive
\* steps with the master enable true throughout.
C39_Witness ==
    /\ last.op = "step"
    /\ last.run = <<1, 2, 4>>
    /\ last.ime0
    /\ mmu.interrupts.ime

\* C40: whenever both delay counters are 0 after DI, EI and RETI in any
\* order, at most one to a CPU step, the master enable is what the most
\* recent of them asked for; and a step whose tick matures a disable and an
\* enable together leaves the master enable true.
C40_LastRequestWins ==
    /\ (/\ mmu.interrupts.disable_ime_counter = 0
        /\ mmu.interrupts.enable_ime_counter = 0
        /\ last.request # "none") =>
          (mmu.interrupts.ime <=> last.request = "enable")
    /\ (last.op = "step" /\ last.dc0 = 1 /\ last.ec0 = 1) => mmu.interrupts.ime

\* A disable and an enable matured in the tick of one step: the most recent
\* request was the enable, both counters are 0 and the master enable is true.
C40_Witness ==
    /\ last.op = "step"
    /\ last.dc0 = 1
    /\ last.ec0 = 1
    /\ last.request = "enable"
    /\ mmu.interrupts.disable_ime_counter = 0
    /\ mmu.interrupts.enable_ime_counter = 0
    /\ mmu.interrupts.ime

====
